---- MODULE Spec2Model ----
(***************************************************************************)
(* Structured-extraction subsystem of neckar_wave_scripts2:                *)
(*   src/src/structured_extraction.py  (engine with repair loop)           *)
(*   src/src/order_prompt_config.py    (OrderItem schema, normalization)   *)
(*                                                                         *)
(* Strings are TLA+ strings; a character is a string of length one.        *)
(* JSON values are tagged records: JNull, JStr(s), JInt(n); a key that an  *)
(* object does not hold is JMissing.                                       *)
(***************************************************************************)
EXTENDS Integers, Sequences, FiniteSets, TLC

\* ------------------------------------------------------------------ bounds
\* max_retries is drawn from 0..MaxRetriesBound
MaxRetriesBound == 2
\* an orders list of an LLM output holds at most MaxOrders rows
MaxOrders == 2

\* ----------------------------------------------------------------- strings
Char(s, i) == SubSeq(s, i, i)

Whitespace == {" ", "\t", "\n"}

RECURSIVE LStrip(_)
LStrip(s) ==
    IF Len(s) > 0 /\ Char(s, 1) \in Whitespace
    THEN LStrip(SubSeq(s, 2, Len(s)))
    ELSE s

RECURSIVE RStrip(_)
RStrip(s) ==
    IF Len(s) > 0 /\ Char(s, Len(s)) \in Whitespace
    THEN RStrip(SubSeq(s, 1, Len(s) - 1))
    ELSE s

\* str.strip()
Strip(s) == RStrip(LStrip(s))

UpperChars == "ABCDEFGHIJKLMNOPQRSTUVWXYZ"
LowerChars == "abcdefghijklmnopqrstuvwxyz"

LowerChar(c) ==
    IF \E i \in 1..Len(UpperChars) : Char(UpperChars, i) = c
    THEN LET i == CHOOSE j \in 1..Len(UpperChars) : Char(UpperChars, j) = c
         IN  Char(LowerChars, i)
    ELSE c

\* str.lower()
RECURSIVE Lower(_)
Lower(s) ==
    IF Len(s) = 0 THEN ""
    ELSE LowerChar(Char(s, 1)) \o Lower(SubSeq(s, 2, Len(s)))

\* str.replace(" ", "")
RECURSIVE RemoveSpaces(_)
RemoveSpaces(s) ==
    IF Len(s) = 0 THEN ""
    ELSE (IF Char(s, 1) = " " THEN "" ELSE Char(s, 1))
         \o RemoveSpaces(SubSeq(s, 2, Len(s)))

\* ------------------------------------------------------- numbers in strings
Digits == "0123456789"

IsDigit(c) == \E d \in 1..10 : Char(Digits, d) = c

DigitVal(c) == (CHOOSE d \in 1..10 : Char(Digits, d) = c) - 1

IsDigits(s) == Len(s) > 0 /\ \A i \in 1..Len(s) : IsDigit(Char(s, i))

RECURSIVE ToInt(_)
ToInt(s) ==
    IF Len(s) = 0 THEN 0
    ELSE ToInt(SubSeq(s, 1, Len(s) - 1)) * 10 + DigitVal(Char(s, Len(s)))

\* zero-padded decimal, as "%02d" / "%04d"
RECURSIVE Pad(_, _)
Pad(n, width) ==
    IF width = 0 THEN ""
    ELSE Pad(n \div 10, width - 1) \o Char(Digits, (n % 10) + 1)

\* position of the first c in s from position i on, 0 when none
RECURSIVE IndexFrom(_, _, _)
IndexFrom(s, c, i) ==
    IF i > Len(s) THEN 0
    ELSE IF Char(s, i) = c THEN i
    ELSE IndexFrom(s, c, i + 1)

IndexOf(s, c) == IndexFrom(s, c, 1)

\* s.split(c)
RECURSIVE Split(_, _)
SplitAt(s, c, i) ==
    IF i = 0 THEN <<s>>
    ELSE <<SubSeq(s, 1, i - 1)>> \o Split(SubSeq(s, i + 1, Len(s)), c)

Split(s, c) == SplitAt(s, c, IndexOf(s, c))

\* ------------------------------------------------------------------- dates
IsLeap(y) == (y % 4 = 0 /\ y % 100 # 0) \/ y % 400 = 0

DaysInMonth(y, m) ==
    IF m = 2 THEN (IF IsLeap(y) THEN 29 ELSE 28)
    ELSE IF m \in {4, 6, 9, 11} THEN 30 ELSE 31

\* the checks of the date(...) / datetime(...) constructors
ValidDate(y, m, d) ==
    /\ y \in 1..9999
    /\ m \in 1..12
    /\ d \in 1..DaysInMonth(y, m)

ValidTime(hh, mm, ss) == hh \in 0..23 /\ mm \in 0..59 /\ ss \in 0..59

NoDate == [ok |-> FALSE, y |-> 0, m |-> 0, d |-> 0, hh |-> 0, mm |-> 0, ss |-> 0, tz |-> ""]

DateTimeOf(y, m, d, hh, mm, ss, tz) ==
    IF ValidDate(y, m, d) /\ ValidTime(hh, mm, ss)
    THEN [ok |-> TRUE, y |-> y, m |-> m, d |-> d, hh |-> hh, mm |-> mm, ss |-> ss, tz |-> tz]
    ELSE NoDate

\* datetime.isoformat() of a value without microseconds
IsoFormat(dt) ==
    Pad(dt.y, 4) \o "-" \o Pad(dt.m, 2) \o "-" \o Pad(dt.d, 2) \o "T"
    \o Pad(dt.hh, 2) \o ":" \o Pad(dt.mm, 2) \o ":" \o Pad(dt.ss, 2) \o dt.tz

\* a whole field of n digits, n in lens
DigitField(s, lens) == Len(s) \in lens /\ IsDigits(s)

\* "+HH:MM" / "-HH:MM" utc offset of an ISO string; "-00:00" prints as "+00:00"
IsOffset(s) ==
    /\ Len(s) = 6
    /\ Char(s, 1) \in {"+", "-"}
    /\ IsDigits(SubSeq(s, 2, 3)) /\ Char(s, 4) = ":" /\ IsDigits(SubSeq(s, 5, 6))
    /\ ToInt(SubSeq(s, 2, 3)) \in 0..23 /\ ToInt(SubSeq(s, 5, 6)) \in 0..59

OffsetOut(s) == IF s = "-00:00" THEN "+00:00" ELSE s

\* "HH:MM" or "HH:MM:SS" with two-digit fields, split at ":" into p
IsoTimeOk(p) == Len(p) \in {2, 3} /\ \A i \in 1..Len(p) : DigitField(p[i], {2})

\* the date and time of an ISO string whose date part is well-formed: rest is
\* what follows the separator, tz its utc offset ("" for none), p its time fields
IsoDateTime(s, tz, p) ==
    IF Len(s) = 10
    THEN DateTimeOf(ToInt(SubSeq(s, 1, 4)), ToInt(SubSeq(s, 6, 7)), ToInt(SubSeq(s, 9, 10)),
                    0, 0, 0, "")
    ELSE IF Len(s) >= 12 /\ IsoTimeOk(p)
    THEN DateTimeOf(ToInt(SubSeq(s, 1, 4)), ToInt(SubSeq(s, 6, 7)), ToInt(SubSeq(s, 9, 10)),
                    ToInt(p[1]), ToInt(p[2]), IF Len(p) = 3 THEN ToInt(p[3]) ELSE 0,
                    OffsetOut(tz))
    ELSE NoDate

IsoRest(s, rest, hasTz) ==
    IsoDateTime(s,
                IF hasTz THEN SubSeq(rest, Len(rest) - 5, Len(rest)) ELSE "",
                Split(IF hasTz THEN SubSeq(rest, 1, Len(rest) - 6) ELSE rest, ":"))

\* datetime.fromisoformat on the shapes YYYY-MM-DD, YYYY-MM-DD?HH:MM[:SS][+HH:MM]
\* (? is any one character); other strings raise ValueError (NoDate)
FromIsoFormat(s) ==
    IF /\ Len(s) >= 10
       /\ IsDigits(SubSeq(s, 1, 4)) /\ Char(s, 5) = "-"
       /\ IsDigits(SubSeq(s, 6, 7)) /\ Char(s, 8) = "-"
       /\ IsDigits(SubSeq(s, 9, 10))
    THEN IsoRest(s, SubSeq(s, 12, Len(s)),
                 Len(s) > 17 /\ IsOffset(SubSeq(s, Len(s) - 5, Len(s))))
    ELSE NoDate

\* str.replace("Z", "+00:00")
RECURSIVE ReplaceZ(_)
ReplaceZ(s) ==
    IF Len(s) = 0 THEN ""
    ELSE (IF Char(s, 1) = "Z" THEN "+00:00" ELSE Char(s, 1))
         \o ReplaceZ(SubSeq(s, 2, Len(s)))

\* position of the first whitespace character of s from position i on, 0 when none
RECURSIVE SpaceFrom(_, _)
SpaceFrom(s, i) ==
    IF i > Len(s) THEN 0
    ELSE IF Char(s, i) \in Whitespace THEN i
    ELSE SpaceFrom(s, i + 1)

FirstSpace(s) == SpaceFrom(s, 1)

\* %y: 00..68 is 2000..2068, 69..99 is 1969..1999
TwoDigitYear(v) == IF v <= 68 THEN 2000 + v ELSE 1900 + v

\* The strptime formats of _normalize_datum: the order of the date fields,
\* their separator, and the time fields after the white space ("" for none).
Fmt(date, sep, time) == [date |-> date, sep |-> sep, time |-> time]

datetime_formats ==
    << Fmt("dmY", ".", "HM"), Fmt("dmY", ".", "HMS"),
       Fmt("Ymd", "-", "HM"), Fmt("Ymd", "-", "HMS"),
       Fmt("dmY", "/", "HM"), Fmt("dmy", ".", "HM") >>

date_formats ==
    << Fmt("dmY", ".", ""), Fmt("Ymd", "-", ""), Fmt("dmY", "/", ""), Fmt("dmy", ".", "") >>

\* datetime.strptime(s, fmt): every directive takes a whole field between the
\* separators (%d %m %H %M %S one or two digits, %Y four, %y two), white space
\* in the format takes one or more white-space characters, and the values must
\* make a datetime; NoDate stands for ValueError.
\* p are the date fields, q the time fields, sp the place of the white space.
StrpFields(p, q, fmt, sp, yi, di) ==
    IF /\ Len(p) = 3
       /\ DigitField(p[yi], IF fmt.date = "dmy" THEN {2} ELSE {4})
       /\ DigitField(p[2], {1, 2})
       /\ DigitField(p[di], {1, 2})
       /\ fmt.time # "" =>
            /\ sp > 0
            /\ Len(q) = (IF fmt.time = "HMS" THEN 3 ELSE 2)
            /\ \A i \in 1..Len(q) : DigitField(q[i], {1, 2})
    THEN DateTimeOf(IF fmt.date = "dmy" THEN TwoDigitYear(ToInt(p[yi])) ELSE ToInt(p[yi]),
                    ToInt(p[2]), ToInt(p[di]),
                    IF fmt.time = "" THEN 0 ELSE ToInt(q[1]),
                    IF fmt.time = "" THEN 0 ELSE ToInt(q[2]),
                    IF fmt.time = "HMS" THEN ToInt(q[3]) ELSE 0, "")
    ELSE NoDate

StrpParts(s, fmt, sp) ==
    StrpFields(Split(IF fmt.time = "" \/ sp = 0 THEN s ELSE SubSeq(s, 1, sp - 1), fmt.sep),
               Split(IF fmt.time = "" \/ sp = 0 THEN "" ELSE LStrip(SubSeq(s, sp, Len(s))), ":"),
               fmt, sp,
               IF fmt.date = "Ymd" THEN 1 ELSE 3,
               IF fmt.date = "Ymd" THEN 3 ELSE 1)

StrpTime(s, fmt) == StrpParts(s, fmt, FirstSpace(s))

\* the first format of fmts that parses s, NoDate when none does
RECURSIVE FirstParse(_, _)
FirstOr(parsed, s, fmts) == IF parsed.ok THEN parsed ELSE FirstParse(s, Tail(fmts))

FirstParse(s, fmts) ==
    IF Len(fmts) = 0 THEN NoDate ELSE FirstOr(StrpTime(s, Head(fmts)), s, fmts)

\* a faulty variant of ShortFields: the first field is read as the month
ShortFields_MonthFirst(p) ==
    IF Len(p) = 2 /\ DigitField(p[1], {1, 2}) /\ DigitField(p[2], {1, 2})
    THEN [match |-> TRUE, day |-> ToInt(p[2]), month |-> ToInt(p[1])]
    ELSE [match |-> FALSE, day |-> 0, month |-> 0]

\* re.match(r"^(\d{1,2})\.(\d{1,2})\.?$", compact): p are the fields between
\* the dots, the last dot left out
ShortFields(p) ==
    IF Len(p) = 2 /\ DigitField(p[1], {1, 2}) /\ DigitField(p[2], {1, 2})
    THEN [match |-> TRUE, day |-> ToInt(p[1]), month |-> ToInt(p[2])]
    ELSE [match |-> FALSE, day |-> 0, month |-> 0]

ShortDate(compact) ==
    ShortFields(Split(IF Len(compact) > 0 /\ Char(compact, Len(compact)) = "."
                      THEN SubSeq(compact, 1, Len(compact) - 1) ELSE compact, "."))

\* ------------------------------------------------------------- JSON values
JNull == [t |-> "null"]
JMissing == [t |-> "missing"]
JStr(s) == [t |-> "str", s |-> s]
JInt(n) == [t |-> "int", n |-> n]

IsStr(v) == v.t = "str"
IsInt(v) == v.t = "int"

\* ------------------------------------------------------- product allow-list
fallback == {"Kardamomknoten", "Zimtknoten", "Rustico", "Classico", "Baguette"}

\* a faulty variant of allowed_product_values: no built-in list
allowed_product_values_NoFallback(file) ==
    IF file.present /\ file.has_column THEN {Strip(n) : n \in file.names} \ {""} ELSE {}

\* allowed_product_values(): the stripped, non-empty names of the product file,
\* the built-in list when the file is absent, has no product column or no name
allowed_product_values(file) ==
    LET values == IF file.present /\ file.has_column
                  THEN {Strip(n) : n \in file.names} \ {""}
                  ELSE {}
    IN  IF values # {} THEN values ELSE fallback

\* ---------------------------------------------------------------- OrderItem
FieldNames ==
    {"Notiz", "Abgeholt", "Datum", "Menge", "Produkt", "Eintragender", "Wohin", "Zahlung"}

AbgeholtValues == {"Ja", "Nein"}
ZahlungValues == {"Vor Ort", "Online", "Per Rechnung", "Schon bezahlt", "Unklar"}

\* @field_validator("notiz_kunde", "eintragender", mode="before")
_empty_to_none(value) ==
    IF IsStr(value) /\ Strip(value.s) = "" THEN JNull ELSE value

ZahlungMapping(normalized, value) ==
    CASE normalized = "vor ort" -> "Vor Ort"
      [] normalized = "online" -> "Online"
      [] normalized = "per rechnung" -> "Per Rechnung"
      [] normalized = "rechnung" -> "Per Rechnung"
      [] normalized = "schon bezahlt" -> "Schon bezahlt"
      [] normalized = "bezahlt" -> "Schon bezahlt"
      [] normalized = "unklar" -> "Unklar"
      [] OTHER -> value

\* @field_validator("zahlung", mode="before")
\* a faulty variant of _normalize_zahlung: the value is not lower-cased
_normalize_zahlung_CaseSensitive(value) ==
    IF ~IsStr(value) THEN value
    ELSE IF Strip(value.s) = "" THEN JNull
    ELSE JStr(ZahlungMapping(Strip(value.s), value.s))

_normalize_zahlung(value) ==
    IF ~IsStr(value) THEN value
    ELSE IF Lower(Strip(value.s)) = "" THEN JNull
    ELSE JStr(ZahlungMapping(Lower(Strip(value.s)), value.s))

\* lines 153-198 of _normalize_datum, on the results of the parsers: the ISO
\* parse wins, then the first date-time or date-only format, then the short
\* D.M. form with the current year; anything else is None
DatumOf(iso, full, short, year) ==
    IF iso.ok THEN JStr(IsoFormat(iso))
    ELSE IF full.ok THEN JStr(IsoFormat(full))
    ELSE IF short.match /\ ValidDate(year, short.month, short.day)
    THEN JStr(IsoFormat(DateTimeOf(year, short.month, short.day, 0, 0, 0, "")))
    ELSE JNull

DatumOfCleaned(cleaned, year) ==
    IF cleaned = "" THEN JNull
    ELSE DatumOf(FromIsoFormat(ReplaceZ(cleaned)),
                 FirstParse(cleaned, datetime_formats \o date_formats),
                 ShortDate(RemoveSpaces(cleaned)), year)

\* a faulty variant of _normalize_datum: a string no format takes is kept
_normalize_datum_KeepsText(value, year) ==
    IF ~IsStr(value) THEN value
    ELSE IF Strip(value.s) # "" /\ DatumOfCleaned(Strip(value.s), year) = JNull THEN value
    ELSE DatumOfCleaned(Strip(value.s), year)

\* @field_validator("datum", mode="before"); year is date.today().year
_normalize_datum(value, year) ==
    IF ~IsStr(value) THEN value ELSE DatumOfCleaned(Strip(value.s), year)

\* a faulty variant of _validate_produkt: the allow-list is not consulted
_validate_produkt_Unchecked(value, allowed) ==
    IF Strip(value) = "" THEN "" ELSE Strip(value)

\* @field_validator("produkt"): the cleaned value, or "" for ValueError
_validate_produkt(value, allowed) ==
    IF Strip(value) = "" THEN ""
    ELSE IF allowed # {} /\ Strip(value) \notin allowed THEN ""
    ELSE Strip(value)

\* One field of OrderItem.model_validate: [ok, v], v the validated value.
Ok(v) == [ok |-> TRUE, v |-> v]
Bad == [ok |-> FALSE, v |-> JNull]

OptionalStr(v) == IF v.t \in {"str", "null"} THEN Ok(v) ELSE Bad

\* int, lax: an int, or a string of digits
MengeInt(v) ==
    IF IsInt(v) THEN v
    ELSE IF IsStr(v) /\ IsDigits(Strip(v.s)) THEN JInt(ToInt(Strip(v.s)))
    ELSE JNull

\* Field(ge=1)
GreaterEqual(v, bound) == IF IsInt(v) /\ v.n >= bound THEN Ok(v) ELSE Bad

\* Literal[...] | None
LiteralOrNone(v, values) == IF v = JNull \/ (IsStr(v) /\ v.s \in values) THEN Ok(v) ELSE Bad

\* the result of a validator that returns "" for ValueError
StrOrError(v) == IF v # "" THEN Ok(JStr(v)) ELSE Bad

\* The fields of OrderItem (lines 67-106), each with its validators; a field
\* the input does not hold takes its default, which is not validated.
notiz_kunde(raw) ==
    IF raw = JMissing THEN Ok(JNull) ELSE OptionalStr(_empty_to_none(raw))

abgeholt(raw) ==
    IF raw = JMissing THEN Ok(JStr("Nein"))
    ELSE IF IsStr(raw) /\ raw.s \in AbgeholtValues THEN Ok(raw) ELSE Bad

datum(raw, year) ==
    IF raw = JMissing THEN Ok(JNull) ELSE OptionalStr(_normalize_datum(raw, year))

\* a faulty variant of menge: ge=0 in place of ge=1
menge_AllowsZero(raw) ==
    IF raw = JMissing THEN Bad ELSE GreaterEqual(MengeInt(raw), 0)

menge(raw) ==
    IF raw = JMissing THEN Bad ELSE GreaterEqual(MengeInt(raw), 1)

produkt(raw, allowed) ==
    IF ~IsStr(raw) THEN Bad ELSE StrOrError(_validate_produkt(raw.s, allowed))

eintragender(raw) ==
    IF raw = JMissing THEN Ok(JNull) ELSE OptionalStr(_empty_to_none(raw))

wohin(raw) ==
    IF raw = JMissing THEN Ok(JStr("Wieblingen")) ELSE OptionalStr(raw)

zahlung(raw) ==
    IF raw = JMissing THEN Ok(JStr("Vor Ort"))
    ELSE LiteralOrNone(_normalize_zahlung(raw), ZahlungValues)

\* OrderItem.model_validate(candidate): every field's result
model_validate(candidate, allowed, year) ==
    [Notiz |-> notiz_kunde(candidate.Notiz),
     Abgeholt |-> abgeholt(candidate.Abgeholt),
     Datum |-> datum(candidate.Datum, year),
     Menge |-> menge(candidate.Menge),
     Produkt |-> produkt(candidate.Produkt, allowed),
     Eintragender |-> eintragender(candidate.Eintragender),
     Wohin |-> wohin(candidate.Wohin),
     Zahlung |-> zahlung(candidate.Zahlung)]

\* the fields that fail (pydantic reports them all in one ValidationError)
ItemErrors(item) == {name \in FieldNames : ~item[name].ok}

\* item.model_dump(by_alias=True) of an item without errors
ItemDump(item) == [name \in FieldNames |-> item[name].v]

\* ------------------------------------------------------------- LLM outputs
\* The candidate JSON string of an attempt, by what it parses to:
\*   RawText            not valid JSON
\*   RawScalar          a JSON number, string, boolean or null
\*   RawArray(elems)    a JSON array of such values
\*   RawObject(orders)  a JSON object; orders is the value of its "orders" key:
\*                      JMissing, JNull, JInt, JStr, JDict (an object) or JList(rows)
\* A row is JDict-shaped with its fields (JRow) or any other JSON value.
RawText == [kind |-> "text"]
RawScalar == [kind |-> "scalar"]
RawArray(elems) == [kind |-> "array", elems |-> elems]
RawObject(orders) == [kind |-> "object", orders |-> orders]
JDict == [t |-> "dict"]
JList(rows) == [t |-> "list", rows |-> rows]
JRow(fields) == [t |-> "row", f |-> fields]

IsRow(v) == v.t = "row"
IsList(v) == v.t = "list"

\* A ValidationError, by the places it reports: <<0, what>> for the payload,
\* <<i, field>> for row i of orders.
NoError == {}

\* list[OrderItem]: every row of orders validated as an OrderItem (a row that
\* is not an object has no fields to validate)
NotAModel == [name \in FieldNames |-> Bad]

RECURSIVE ValidateRows(_, _, _)
ValidateRows(rows, allowed, year) ==
    IF Len(rows) = 0 THEN <<>>
    ELSE << IF IsRow(Head(rows)) THEN model_validate(Head(rows).f, allowed, year)
            ELSE NotAModel >>
         \o ValidateRows(Tail(rows), allowed, year)

ValidatedRows(raw, allowed, year) ==
    IF raw.kind = "object" /\ IsList(raw.orders)
    THEN ValidateRows(raw.orders.rows, allowed, year)
    ELSE <<>>

\* a faulty variant of PayloadErrors: the items of orders are not validated
PayloadErrors_Lenient(raw, validated) ==
    CASE raw.kind = "text" -> {<<0, "json_invalid">>}
      [] raw.kind \in {"scalar", "array"} -> {<<0, "model_type">>}
      [] raw.kind = "object" ->
            IF raw.orders = JMissing \/ IsList(raw.orders) THEN NoError
            ELSE {<<0, "orders">>}

\* OrdersPayload.model_validate_json(raw_args): the places that fail, given
\* the validated rows
PayloadErrors(raw, validated) ==
    CASE raw.kind = "text" -> {<<0, "json_invalid">>}
      [] raw.kind \in {"scalar", "array"} -> {<<0, "model_type">>}
      [] raw.kind = "object" ->
            IF raw.orders = JMissing THEN NoError
            ELSE IF ~IsList(raw.orders) THEN {<<0, "orders">>}
            ELSE UNION { IF IsRow(raw.orders.rows[i])
                         THEN {<<i, name>> : name \in ItemErrors(validated[i])}
                         ELSE {<<i, "model_type">>} : i \in 1..Len(validated) }

\* OrdersPayload.model_validate_json(raw_args).model_dump(by_alias=True), for
\* a raw_args without errors: the orders as a list of dumped items
PayloadDump(validated) == [i \in 1..Len(validated) |-> ItemDump(validated[i])]

\* a dumped item read back as a row of JSON values
AsRow(item) == JRow(item)

\* ----------------------------------------------------- validate_orders_payload
\* Python truthiness of candidate.get("Eintragender")
Truthy(v) == (IsStr(v) /\ v.s # "") \/ (IsInt(v) /\ v.n # 0)

\* a faulty variant of Candidate: the default replaces whatever the row holds
Candidate_Overwrite(fields, default_eintragender) ==
    IF default_eintragender # ""
    THEN [fields EXCEPT !.Eintragender = JStr(default_eintragender)]
    ELSE fields

\* candidate = dict(row) with the default entered-by applied
Candidate(fields, default_eintragender) ==
    IF default_eintragender # "" /\ ~Truthy(fields.Eintragender)
    THEN [fields EXCEPT !.Eintragender = JStr(default_eintragender)]
    ELSE fields

\* the loop of validate_orders_payload over the rows (lines 301-312): the
\* dumped items of the rows that are dicts and validate, in order
RECURSIVE NormalizedOrders(_, _, _, _)
KeepValid(item, rest) ==
    IF ItemErrors(item) # {} THEN rest ELSE <<ItemDump(item)>> \o rest

NormalizedOrders(rows, default_eintragender, allowed, year) ==
    IF Len(rows) = 0 THEN <<>>
    ELSE IF ~IsRow(Head(rows))
    THEN NormalizedOrders(Tail(rows), default_eintragender, allowed, year)
    ELSE KeepValid(model_validate(Candidate(Head(rows).f, default_eintragender), allowed, year),
                   NormalizedOrders(Tail(rows), default_eintragender, allowed, year))

\* payload.get("orders", []) as the rows the for loop visits; a string yields
\* its characters and an object its keys (none of them a dict), null and a
\* number are not iterable
IterRows(orders) ==
    CASE orders = JMissing -> [exc |-> "", rows |-> <<>>]
      [] IsList(orders) -> [exc |-> "", rows |-> orders.rows]
      [] IsStr(orders) -> [exc |-> "", rows |-> [i \in 1..Len(orders.s) |-> JStr(Char(orders.s, i))]]
      [] orders = JDict -> [exc |-> "", rows |-> <<>>]
      [] OTHER -> [exc |-> "TypeError", rows |-> <<>>]

\* OrdersPayload(orders=[OrderItem.model_validate(order) ...]).model_dump(by_alias=True)
\* (lines 314-317): every normalized order is validated once more
RECURSIVE ValidateOrders(_, _, _)
ValidateOrders(orders, allowed, year) ==
    IF Len(orders) = 0 THEN <<>>
    ELSE <<model_validate(Head(orders), allowed, year)>>
         \o ValidateOrders(Tail(orders), allowed, year)

OutputOf(items) ==
    IF \E i \in 1..Len(items) : ItemErrors(items[i]) # {}
    THEN [exc |-> "ValidationError", orders |-> <<>>]
    ELSE [exc |-> "", orders |-> [i \in 1..Len(items) |-> ItemDump(items[i])]]

Output(normalized_orders, allowed, year) ==
    OutputOf(ValidateOrders(normalized_orders, allowed, year))

ForRows(it, default_eintragender, allowed, year) ==
    IF it.exc # "" THEN [exc |-> it.exc, orders |-> <<>>]
    ELSE Output(NormalizedOrders(it.rows, default_eintragender, allowed, year), allowed, year)

\* validate_orders_payload(payload, default_eintragender=...): [exc, orders];
\* payload is a raw value that is a JSON object, or not a dict at all
validate_orders_payload(payload, default_eintragender, allowed, year) ==
    IF payload.kind # "object" THEN [exc |-> "", orders |-> <<>>]
    ELSE ForRows(IterRows(payload.orders), default_eintragender, allowed, year)

Max(a, b) == IF a >= b THEN a ELSE b

\* the report of validate_orders_payload_with_report (lines 329-334)
WithReport(raw_count, normalized) ==
    [exc |-> normalized.exc,
     orders |-> normalized.orders,
     report |-> [raw_orders |-> raw_count,
                 valid_orders |-> Len(normalized.orders),
                 dropped_orders |-> Max(0, raw_count - Len(normalized.orders))]]

\* validate_orders_payload_with_report: [exc, orders, report]
validate_orders_payload_with_report(payload, default_eintragender, allowed, year) ==
    WithReport(IF payload.kind = "object" /\ IsList(payload.orders)
               THEN Len(payload.orders.rows) ELSE 0,
               validate_orders_payload(payload, default_eintragender, allowed, year))

\* str(context.get("default_eintragender", ""))
PyStr(v) ==
    CASE v = JMissing -> ""
      [] v = JNull -> "None"
      [] IsStr(v) -> v.s

\* _normalize_orders(payload, context)
_normalize_orders(payload, ctx, allowed, year) ==
    validate_orders_payload_with_report(payload, Strip(PyStr(ctx)), allowed, year)

\* ------------------------------------------------------------ the registry
PATTERN_TOOL_CALL_REPAIR == "tool_call_repair"

EXTRACTION_TARGETS ==
    [key \in {"orders_v1"} |->
        [key |-> key,
         pattern |-> PATTERN_TOOL_CALL_REPAIR,
         function_name |-> "extract_orders_v1",
         model |-> "OrdersPayload",
         normalize |-> "_normalize_orders"]]

\* _build_tools(target)
_build_tools(target) ==
    << [type |-> "function", name |-> target.function_name, parameters |-> target.model] >>

\* ------------------------------------------------------------ LLM responses
\* A tool call's arguments and a message's content: not a string (None), a
\* blank string, or a string that holds the candidate JSON raw.
NotAString == [str |-> FALSE]
BlankString == [str |-> TRUE, blank |-> TRUE]
Text(raw) == [str |-> TRUE, blank |-> FALSE, raw |-> raw]

Response(tool_calls, content) == [tool_calls |-> tool_calls, content |-> content]

\* the string "{}"
EmptyObject == RawObject(JMissing)

\* a faulty variant of _extract_arguments: the content is looked at first
_extract_arguments_ContentFirst(response) ==
    LET args == IF Len(response.tool_calls) > 0 THEN Head(response.tool_calls) ELSE NotAString
    IN  IF response.content.str /\ ~response.content.blank THEN response.content.raw
        ELSE IF args.str /\ ~args.blank THEN args.raw
        ELSE EmptyObject

\* _extract_arguments(response)
_extract_arguments(response) ==
    LET args == IF Len(response.tool_calls) > 0 THEN Head(response.tool_calls) ELSE NotAString
    IN  IF args.str /\ ~args.blank THEN args.raw
        ELSE IF response.content.str /\ ~response.content.blank THEN response.content.raw
        ELSE EmptyObject

\* no raw arguments
NoRaw == [kind |-> "none"]

\* a faulty variant of _json_error_message: the invalid JSON is left out
_json_error_message_NoJson(raw_args, error) ==
    [text |-> "The following JSON failed schema validation.", json |-> NoRaw, error |-> error]

\* _json_error_message(raw_args, error)
_json_error_message(raw_args, error) ==
    [text |-> "The following JSON failed schema validation.", json |-> raw_args, error |-> error]

Prompt(text) == [text |-> text, json |-> NoRaw, error |-> NoError]
Message(role, content) == [role |-> role, content |-> content]

\* ------------------------------------------------- inputs the model explores
\* rows an LLM output may hold
RowFull ==
    JRow([Notiz |-> JStr("  "), Abgeholt |-> JStr("Ja"), Datum |-> JStr("24.12."),
          Menge |-> JInt(2), Produkt |-> JStr(" Rustico "), Eintragender |-> JStr("Ben"),
          Wohin |-> JNull, Zahlung |-> JStr("Rechnung")])

RowOnly(quantity, product, day, payment) ==
    JRow([Notiz |-> JMissing, Abgeholt |-> JMissing, Datum |-> day,
          Menge |-> quantity, Produkt |-> product, Eintragender |-> JMissing,
          Wohin |-> JMissing, Zahlung |-> payment])

RowMinimal == RowOnly(JInt(1), JStr("Rustico"), JStr("29.2."), JMissing)
RowZero == RowOnly(JInt(0), JStr("Rustico"), JMissing, JMissing)
RowNegative == RowOnly(JInt(-1), JStr("Rustico"), JMissing, JMissing)
RowDinkel == RowOnly(JStr("3"), JStr("Dinkelbrot"), JStr("2025-01-07T09:30:00Z"), JStr(" vor ort"))
RowBar == RowOnly(JInt(1), JStr("Classico"), JStr("morgen"), JStr("Bar"))
RowText == JStr("Brot")
\* rows whose Eintragender is given as whitespace and as null
RowBlank == JRow([RowZero.f EXCEPT !.Menge = JInt(1), !.Eintragender = JStr("  ")])
RowNull == JRow([RowZero.f EXCEPT !.Menge = JInt(1), !.Eintragender = JNull])

\* date strings an item may carry: in no accepted format, in an accepted
\* format with an impossible value, in one of the full formats, and in the
\* short D.M. form
MalformedDates ==
    {"morgen", "Freitag 14 Uhr", "7. 1. 2025", "2025/01/07", "7-1-2025", "12:30",
     "1.2.3.", "123.4.", "1..2", "07.01.2025 um 9", "3.\t4.", "24.12.!"}

ImpossibleDates == {"2025-13-01", "32.1.2025", "30.02.2025", "07.01.2025 25:00"}

FullDates ==
    {"07.01.2025", "7.1.25", "2025-01-07", "07/01/2025", "07.01.2025 9:30",
     "2025-01-07T09:30:00Z"}

ShortDates ==
    {"24.12.", "24.12", " 3 . 4 . ", "31.2.", "29.2.", "0.5.", "5.13", "07.01", "31.4",
     "1.1."}

DateInputs == MalformedDates \cup ImpossibleDates \cup FullDates \cup ShortDates

\* a row that is valid but for its date
RowDated(day) == RowOnly(JInt(1), JStr("Rustico"), JStr(day), JMissing)

\* a row that holds every field in its validated form
RowClean ==
    JRow([Notiz |-> JStr("Frau Maier"), Abgeholt |-> JStr("Ja"),
          Datum |-> JStr("2025-01-07T09:30:00"), Menge |-> JInt(2),
          Produkt |-> JStr("Rustico"), Eintragender |-> JStr("Ben"), Wohin |-> JStr(""),
          Zahlung |-> JStr("Online")])

\* the rows an output may hold on their own
SingleRows == {RowBlank, RowNull, RowClean}

ItemPool == {RowFull, RowMinimal, RowZero, RowDinkel, RowBar, RowText}

OrderLists == UNION {[1..n -> ItemPool] : n \in 0..MaxOrders}

\* what an LLM may answer on the last attempt of a call
RawOutputs ==
    {RawText, RawScalar, RawArray(<<>>), RawArray(<<RawScalar>>)}
    \cup {RawObject(o) : o \in {JMissing, JNull, JInt(5), JStr("x"), JDict}}
    \cup {RawObject(JList(l)) : l \in OrderLists}
    \cup {RawArray(<<RawObject(JList(l))>>) : l \in OrderLists}
    \cup {RawObject(JList(<<r>>)) : r \in SingleRows}
    \cup {RawArray(<<RawObject(JList(<<r>>))>>) : r \in SingleRows}

\* what it may answer on an attempt that is not the last (each such answer is
\* kept in the conversation)
EarlyOutputs ==
    {EmptyObject, RawObject(JList(<<RowFull>>)),
     RawObject(JList(<<RowNegative, RowFull>>)),
     RawArray(<<RawObject(JList(<<RowFull, RowBar>>)), RawScalar>>)}

Outputs(last) == IF last THEN RawOutputs \cup EarlyOutputs ELSE EarlyOutputs

\* the responses that carry these outputs: as the arguments of a tool call, as
\* plain content without a tool call or behind a blank tool call, or not at all
Responses(last) ==
    {Response(<<Text(r)>>, NotAString) : r \in Outputs(last)}
    \cup {Response(<<>>, Text(r)) : r \in EarlyOutputs}
    \cup {Response(<<BlankString>>, Text(r)) : r \in EarlyOutputs}
    \cup {Response(<<Text(r)>>, Text(RawText)) : r \in EarlyOutputs}
    \cup {Response(<<>>, NotAString), Response(<<NotAString>>, BlankString)}

ProductFiles ==
    {[present |-> FALSE, has_column |-> FALSE, names |-> {}],
     [present |-> TRUE, has_column |-> TRUE, names |-> {"Rustico", " Dinkelbrot ", ""}]}

Years == {2024, 2025}

ContextValues == {JMissing, JNull, JStr(" Anna ")}

\* the values of metadata["default_eintragender"] an upload may carry
MetadataValues == {JMissing, JNull, JStr(" Anna "), JStr(""), JStr("  ")}

\* the context the image adapter hands to extract_with_repair
\* (image_extractor.py lines 95 and 169)
AdapterContext(value) == JStr(Strip(PyStr(value)))

TargetKeys == {"orders_v1", "customers_v1"}

Operations == {"extract_with_repair", "get_tools_for_target"}

\* -------------------------------------------------------------------- state
VARIABLES
    op,             \* the function that is called
    target_key,     \* its target_key argument
    max_retries,    \* its max_retries argument
    context,        \* the value of context["default_eintragender"]
    product_file,   \* the product list file read by load_product_list
    today_year,     \* date.today().year
    pc,             \* "start", "loop", "fallback", "returned" or "raised"
    attempt,        \* the loop variable of extract_with_repair
    messages,       \* the conversation
    tools,          \* the tool declarations
    sent,           \* the message list of every LLM call issued so far, in order
    outcomes,       \* how each LLM call ended ("valid", "invalid" or "error") and the
                    \* raw arguments it gave
    last_raw_args,
    last_error,
    result,         \* the returned (payload, trace)
    exc,            \* the raised exception
    request,        \* what the caller hands to the other entry points
    reply,          \* what these entry points give back
    registry,       \* the module-level dict EXTRACTION_TARGETS
    heap,           \* the message lists calls in flight have created, by reference
    threads,        \* the calls that run at the same time, each with its locals
    disk            \* the file at CONFIG_PATH

vars == <<op, target_key, max_retries, context, product_file, today_year, pc, attempt,
          messages, tools, sent, outcomes, last_raw_args, last_error, result, exc,
          request, reply, registry, heap, threads, disk>>

\* what calls that run at the same time share or keep per thread
world == <<registry, heap, threads, disk>>

inputs == <<op, target_key, max_retries, context, product_file, today_year, request>>

NoRequest == [kind |-> "none"]

NoReply == [kind |-> "none"]

NoReport == [raw_orders |-> 0, valid_orders |-> 0, dropped_orders |-> 0]

NoResult ==
    [orders |-> <<>>,
     trace |-> [attempts |-> 0, raw_arguments |-> NoRaw, target_key |-> "", pattern |-> "",
                fallback_used |-> FALSE, normalization |-> NoReport,
                validation_error |-> NoError]]

NoExc == [type |-> "", cause |-> NoError]

Outcome(verdict, raw_args) == [verdict |-> verdict, raw_arguments |-> raw_args]

\* one call on its own: the registry as the module defines it, nothing else
\* in flight and no file looked at
NoDisk == [kind |-> "none"]

NoThreads ==
    /\ registry = EXTRACTION_TARGETS
    /\ heap = <<>>
    /\ threads = <<>>
    /\ disk = NoDisk

system_prompt == "system_prompt"
user_content == "user_content"

Init ==
    /\ op \in Operations
    /\ target_key \in TargetKeys
    /\ max_retries \in 0..MaxRetriesBound
    /\ context \in ContextValues
    /\ product_file \in ProductFiles
    /\ today_year \in Years
    /\ pc = "start"
    /\ attempt = 0
    /\ messages = <<>>
    /\ tools = <<>>
    /\ sent = <<>>
    /\ outcomes = <<>>
    /\ last_raw_args = NoRaw
    /\ last_error = NoError
    /\ result = NoResult
    /\ exc = NoExc
    /\ request = NoRequest
    /\ reply = NoReply
    /\ NoThreads

\* a faulty variant of GetToolsForTarget: an unknown key yields no tools
GetToolsForTarget_Lenient ==
    /\ pc = "start" /\ op = "get_tools_for_target"
    /\ pc' = "returned"
    /\ tools' = IF target_key \in DOMAIN EXTRACTION_TARGETS
                THEN _build_tools(EXTRACTION_TARGETS[target_key]) ELSE <<>>
    /\ UNCHANGED <<inputs, world, reply, attempt, messages, sent, outcomes, last_raw_args, last_error,
                   result, exc>>

\* get_tools_for_target(target_key)
GetToolsForTarget ==
    /\ pc = "start" /\ op = "get_tools_for_target"
    /\ IF target_key \notin DOMAIN EXTRACTION_TARGETS
       THEN /\ pc' = "raised"
            /\ exc' = [type |-> "StructuredExtractionError", cause |-> NoError]
            /\ tools' = tools
       ELSE /\ pc' = "returned"
            /\ tools' = _build_tools(EXTRACTION_TARGETS[target_key])
            /\ exc' = exc
    /\ UNCHANGED <<inputs, world, reply, attempt, messages, sent, outcomes, last_raw_args, last_error, result>>

\* extract_with_repair, up to the loop (lines 119-135)
Lookup ==
    /\ pc = "start" /\ op = "extract_with_repair"
    /\ IF target_key \notin DOMAIN EXTRACTION_TARGETS
          \/ EXTRACTION_TARGETS[target_key].pattern # PATTERN_TOOL_CALL_REPAIR
       THEN /\ pc' = "raised"
            /\ exc' = [type |-> "StructuredExtractionError", cause |-> NoError]
            /\ UNCHANGED <<tools, messages, last_raw_args>>
       ELSE /\ pc' = "loop"
            /\ tools' = _build_tools(EXTRACTION_TARGETS[target_key])
            /\ messages' = << Message("system", Prompt(system_prompt)),
                              Message("user", Prompt(user_content)) >>
            /\ last_raw_args' = EmptyObject
            /\ exc' = exc
    /\ UNCHANGED <<inputs, world, reply, attempt, sent, outcomes, last_error, result>>

\* What one pass of the try block (lines 151-160) makes of raw_args: the
\* ValidationError it raises (error), another exception of normalize (exc),
\* or the normalized payload and its report.
Parsed(dump) == RawObject(JList([i \in 1..Len(dump) |-> AsRow(dump[i])]))

Normalized(norm) ==
    IF norm.exc = "ValidationError"
    THEN [error |-> {<<0, "normalize">>}, exc |-> "", orders |-> <<>>, report |-> NoReport]
    ELSE [error |-> NoError, exc |-> norm.exc, orders |-> norm.orders, report |-> norm.report]

TryParsed(raw_args, validated, ctx, allowed, year) ==
    IF PayloadErrors(raw_args, validated) # NoError
    THEN [error |-> PayloadErrors(raw_args, validated), exc |-> "", orders |-> <<>>,
          report |-> NoReport]
    ELSE Normalized(_normalize_orders(Parsed(PayloadDump(validated)), ctx, allowed, year))

try_block(raw_args, ctx, allowed, year) ==
    TryParsed(raw_args, ValidatedRows(raw_args, allowed, year), ctx, allowed, year)

\* a faulty variant of FallbackPayload: a top-level array is not unwrapped
FallbackPayload_NoArray(raw) ==
    IF raw.kind = "object" THEN raw ELSE EmptyObject

\* json.loads(last_raw_args) narrowed to a dict (lines 168-175)
FallbackPayload(raw) ==
    CASE raw.kind = "object" -> raw
      [] raw.kind = "array" ->
            IF Len(raw.elems) > 0 /\ Head(raw.elems).kind = "object"
            THEN Head(raw.elems) ELSE EmptyObject
      [] OTHER -> EmptyObject

\* Both the try block and target.normalize are functions of the call's inputs
\* and the raw arguments alone, and of the context only through the stripped
\* string of line 37; they are tabulated once over the inputs and outputs the
\* model explores (@@ <<>> makes TLC compute a table instead of keeping the
\* function as a rule).
Contexts == ContextValues \cup {AdapterContext(v) : v \in MetadataValues}

DefaultTable == [c \in Contexts |-> Strip(PyStr(c))] @@ <<>>

Defaults == {DefaultTable[c] : c \in Contexts}

Environments == Defaults \X ProductFiles \X Years

\* the payloads handed to target.normalize: what the fallback path makes of an
\* LLM output, and values that are no dict
Payloads ==
    {FallbackPayload(r) : r \in RawOutputs \cup EarlyOutputs} \cup {RawScalar, RawArray(<<>>)}
    \cup {RawObject(JList(<<RowDated(d)>>)) : d \in DateInputs}

TryTable ==
    [e \in Environments |->
        [r \in RawOutputs \cup EarlyOutputs |->
            try_block(r, JStr(e[1]), allowed_product_values(e[2]), e[3])] @@ <<>>] @@ <<>>

SalvageTable ==
    [e \in Environments |->
        [p \in Payloads |->
            _normalize_orders(p, JStr(e[1]), allowed_product_values(e[2]), e[3])] @@ <<>>] @@ <<>>

TryValidate(raw_args) ==
    TryTable[<<DefaultTable[context], product_file, today_year>>][raw_args]

\* target.normalize(fallback_payload, context) of line 176
Salvage(raw_args) ==
    SalvageTable[<<DefaultTable[context], product_file, today_year>>][FallbackPayload(raw_args)]

\* a faulty variant of LastAttempt: the loop runs one attempt too many
LastAttempt_OffByOne(attempt_no, retries) == attempt_no = retries + 1

\* if attempt == max_retries (line 163); the loop runs attempt over
\* range(max_retries + 1) (line 137)
LastAttempt(attempt_no, retries) == attempt_no = retries

\* a faulty variant of SuccessTrace: attempts counts from zero
SuccessTrace_FromZero(attempt_no, raw_args, key, report) ==
    [attempts |-> attempt_no, raw_arguments |-> raw_args, target_key |-> key,
     pattern |-> EXTRACTION_TARGETS[key].pattern, fallback_used |-> FALSE,
     normalization |-> report, validation_error |-> NoError]

\* the trace returned with a validated payload (lines 154-160); the keys it
\* does not hold are shown with their empty values
SuccessTrace(attempt_no, raw_args, key, report) ==
    [attempts |-> attempt_no + 1, raw_arguments |-> raw_args, target_key |-> key,
     pattern |-> EXTRACTION_TARGETS[key].pattern, fallback_used |-> FALSE,
     normalization |-> report, validation_error |-> NoError]

\* the trace returned with a salvaged payload (lines 181-189)
FallbackTrace(retries, raw_args, key, report, error) ==
    [attempts |-> retries + 1, raw_arguments |-> raw_args, target_key |-> key,
     pattern |-> EXTRACTION_TARGETS[key].pattern, fallback_used |-> TRUE,
     normalization |-> report, validation_error |-> error]

\* a faulty variant of AttemptProviderError: the exception of the LLM call is
\* caught and raised again as StructuredExtractionError
AttemptProviderError_Wrapped ==
    /\ pc = "loop"
    /\ sent' = Append(sent, messages)
    /\ outcomes' = Append(outcomes, Outcome("error", NoRaw))
    /\ pc' = "raised"
    /\ exc' = [type |-> "StructuredExtractionError", cause |-> NoError]
    /\ UNCHANGED <<inputs, world, reply, attempt, messages, tools, last_raw_args, last_error, result>>

\* An attempt whose LLM call raises: the exception leaves extract_with_repair
AttemptProviderError ==
    /\ pc = "loop"
    /\ sent' = Append(sent, messages)
    /\ outcomes' = Append(outcomes, Outcome("error", NoRaw))
    /\ pc' = "raised"
    /\ exc' = [type |-> "ProviderError", cause |-> NoError]
    /\ UNCHANGED <<inputs, world, reply, attempt, messages, tools, last_raw_args, last_error, result>>

\* An attempt whose arguments validate (lines 138-160)
AttemptValidated ==
    /\ pc = "loop"
    /\ \E response \in Responses(LastAttempt(attempt, max_retries)) :
         LET raw_args == _extract_arguments(response)
             try == TryValidate(raw_args)
         IN  /\ try.error = NoError
             /\ sent' = Append(sent, messages)
             /\ outcomes' = Append(outcomes, Outcome("valid", raw_args))
             /\ last_raw_args' = raw_args
             /\ IF try.exc # ""
                THEN /\ pc' = "raised"
                     /\ exc' = [type |-> try.exc, cause |-> NoError]
                     /\ result' = result
                ELSE /\ pc' = "returned"
                     /\ result' = [orders |-> try.orders,
                                   trace |-> SuccessTrace(attempt, raw_args, target_key,
                                                          try.report)]
                     /\ exc' = exc
    /\ UNCHANGED <<inputs, world, reply, attempt, messages, tools, last_error>>

\* An attempt whose arguments fail validation while attempts remain (lines
\* 138-153, 161-165): the repair message is appended
AttemptRepair ==
    /\ pc = "loop"
    /\ ~LastAttempt(attempt, max_retries)
    /\ \E response \in Responses(FALSE) :
         LET raw_args == _extract_arguments(response)
             try == TryValidate(raw_args)
         IN  /\ try.error # NoError
             /\ sent' = Append(sent, messages)
             /\ outcomes' = Append(outcomes, Outcome("invalid", raw_args))
             /\ last_raw_args' = raw_args
             /\ last_error' = try.error
             /\ messages' = Append(messages,
                                   Message("user", _json_error_message(raw_args, try.error)))
    /\ attempt' = attempt + 1
    /\ UNCHANGED <<inputs, world, reply, pc, tools, result, exc>>

\* The last attempt fails validation (lines 138-153, 161-164): the loop ends
AttemptExhausted ==
    /\ pc = "loop"
    /\ LastAttempt(attempt, max_retries)
    /\ \E response \in Responses(TRUE) :
         LET raw_args == _extract_arguments(response)
             try == TryValidate(raw_args)
         IN  /\ try.error # NoError
             /\ sent' = Append(sent, messages)
             /\ outcomes' = Append(outcomes, Outcome("invalid", raw_args))
             /\ last_raw_args' = raw_args
             /\ last_error' = try.error
    /\ pc' = "fallback"
    /\ UNCHANGED <<inputs, world, reply, attempt, messages, tools, result, exc>>

\* The salvage after the loop (lines 167-193)
Fallback ==
    /\ pc = "fallback"
    /\ LET norm == Salvage(last_raw_args)
           has_structured_content == Len(norm.orders) > 0
       IN  IF norm.exc # ""
           THEN /\ pc' = "raised"
                /\ exc' = [type |-> norm.exc, cause |-> NoError]
                /\ result' = result
           ELSE IF has_structured_content
           THEN /\ pc' = "returned"
                /\ result' = [orders |-> norm.orders,
                              trace |-> FallbackTrace(max_retries, last_raw_args, target_key,
                                                      norm.report, last_error)]
                /\ exc' = exc
           ELSE /\ pc' = "raised"
                /\ exc' = [type |-> "StructuredExtractionError", cause |-> last_error]
                /\ result' = result
    /\ UNCHANGED <<inputs, world, reply, attempt, messages, tools, sent, outcomes, last_raw_args, last_error>>

Next ==
    \/ GetToolsForTarget
    \/ Lookup
    \/ AttemptProviderError
    \/ AttemptValidated
    \/ AttemptRepair
    \/ AttemptExhausted
    \/ Fallback

Spec == Init /\ [][Next]_vars

\* ------------------------------------------------- the functions on their own
\* The functions the engine and the adapters are built from, each called once
\* on inputs of its own.
UnitOperations ==
    {"_normalize_orders", "OrderItem.model_validate", "load_prompt_config",
     "_extract_arguments"}

DEFAULT_SYSTEM_PROMPT ==
    "Du extrahierst Bestelldaten fuer eine Baeckerei aus bereitgestelltem Inhalt. "
    \o "Arbeite strikt faktisch: nichts erfinden, nichts raten. "
    \o "Nutze ausschliesslich das vorgegebene Tool-Schema und erfasse pro Bestellzeile genau ein Produkt. "
    \o "Wenn Information fehlt, nutze Feld-Defaults, sonst null."

\* the file at CONFIG_PATH: absent, not readable, not JSON, or the JSON text of
\* a value; ConfigObject(v) is an object whose system_prompt is v (JMissing
\* when it has no such key)
ConfigObject(stored) == [t |-> "dict", system_prompt |-> stored]

ConfigFile(exists, readable, valid, value) ==
    [kind |-> "file", exists |-> exists, readable |-> readable, valid |-> valid,
     value |-> value]

ConfigFiles ==
    {ConfigFile(FALSE, FALSE, FALSE, JNull), ConfigFile(TRUE, FALSE, FALSE, JNull),
     ConfigFile(TRUE, TRUE, FALSE, JNull)}
    \cup {ConfigFile(TRUE, TRUE, TRUE, v) :
            v \in {JNull, JInt(5), JStr("prompt"), JList(<<>>)}
                  \cup {ConfigObject(stored) :
                          stored \in {JMissing, JNull, JInt(5), JList(<<>>), JStr(""),
                                      JStr("Extrahiere alle Bestellungen. ")}}}

\* rows handed to OrderItem.model_validate: one field or one group of fields
\* varies, the others are valid
RowOf(note, entered_by, destination, product, payment) ==
    JRow([Notiz |-> note, Abgeholt |-> JMissing, Datum |-> JMissing, Menge |-> JInt(1),
          Produkt |-> product, Eintragender |-> entered_by, Wohin |-> destination,
          Zahlung |-> payment])

FreeTexts == {JMissing, JNull, JStr(""), JStr("  "), JStr(" Ben ")}

ProductInputs ==
    {JStr("Rustico"), JStr(" Zimtknoten "), JStr("Dinkelbrot"), JStr("Sauerteig"),
     JStr(""), JStr("  ")}

PaymentInputs ==
    {JMissing, JNull, JInt(5), JStr(""), JStr("  ")}
    \cup {JStr(z) : z \in ZahlungValues}
    \cup {JStr("vor ort"), JStr(" VOR ORT "), JStr("online"), JStr("Rechnung"),
          JStr("per rechnung"), JStr("PER RECHNUNG"), JStr("bezahlt"), JStr(" Bezahlt"),
          JStr("schon bezahlt"), JStr("unklar"), JStr("Bar"), JStr(" bar "),
          JStr("Vor  Ort")}

UnitRows ==
    {RowOf(JMissing, JMissing, JMissing, p, JMissing) : p \in ProductInputs}
    \cup {RowOf(JMissing, JMissing, JMissing, JStr("Rustico"), z) : z \in PaymentInputs}
    \cup {RowOf(n, e, w, JStr("Rustico"), JMissing) : n \in FreeTexts, e \in FreeTexts,
                                                       w \in FreeTexts}
    \cup {RowDated(d) : d \in DateInputs}

\* product list files: the two of ProductFiles, one without the product
\* column and one whose names are all blank
UnitProductFiles ==
    ProductFiles
    \cup {[present |-> TRUE, has_column |-> FALSE, names |-> {"Dinkelbrot"}],
          [present |-> TRUE, has_column |-> TRUE, names |-> {"", "  "}]}

\* responses handed to _extract_arguments: no, one or two tool calls, the
\* arguments of each and the content not a string, blank, or a JSON text
UnitArguments ==
    {NotAString, BlankString, Text(RawText), Text(RawObject(JList(<<RowFull>>)))}

UnitContents == {NotAString, BlankString, Text(RawScalar), Text(RawObject(JList(<<RowBar>>)))}

UnitResponses ==
    {Response(calls, content) :
        calls \in {<<>>} \cup {<<a>> : a \in UnitArguments}
                  \cup {<<a, Text(EmptyObject)>> : a \in UnitArguments},
        content \in UnitContents}

UnitInit ==
    /\ op \in UnitOperations
    /\ target_key = "orders_v1"
    /\ max_retries = 0
    /\ context \in (IF op = "_normalize_orders" THEN ContextValues ELSE {JMissing})
    /\ product_file \in
         CASE op = "_normalize_orders" -> ProductFiles
           [] op = "OrderItem.model_validate" -> UnitProductFiles
           [] OTHER -> {pf \in ProductFiles : ~pf.present}
    /\ today_year \in (IF op = "load_prompt_config" THEN {2025} ELSE Years)
    /\ request \in
         CASE op = "_normalize_orders" -> Payloads
           [] op = "OrderItem.model_validate" -> UnitRows
           [] op = "_extract_arguments" -> UnitResponses
           [] OTHER -> ConfigFiles
    /\ pc = "start"
    /\ attempt = 0
    /\ messages = <<>>
    /\ tools = <<>>
    /\ sent = <<>>
    /\ outcomes = <<>>
    /\ last_raw_args = NoRaw
    /\ last_error = NoError
    /\ result = NoResult
    /\ exc = NoExc
    /\ reply = NoReply
    /\ NoThreads

engine == <<attempt, messages, tools, sent, outcomes, last_raw_args, last_error, result>>

\* _normalize_orders(request, context): the payload and its report, or the
\* exception validate_orders_payload raises
NormalizeOrders ==
    /\ pc = "start" /\ op = "_normalize_orders"
    /\ LET norm == SalvageTable[<<DefaultTable[context], product_file, today_year>>][request]
       IN  IF norm.exc # ""
           THEN /\ pc' = "raised"
                /\ exc' = [type |-> norm.exc, cause |-> NoError]
                /\ reply' = reply
           ELSE /\ pc' = "returned"
                /\ reply' = [kind |-> "normalized", orders |-> norm.orders,
                             report |-> norm.report]
                /\ exc' = exc
    /\ UNCHANGED <<inputs, world, engine>>

\* OrderItem.model_validate(request): the dumped item, or the ValidationError
\* with the fields that fail
ValidateItem ==
    /\ pc = "start" /\ op = "OrderItem.model_validate"
    /\ LET item == model_validate(request.f, allowed_product_values(product_file), today_year)
       IN  IF ItemErrors(item) # {}
           THEN /\ pc' = "raised"
                /\ exc' = [type |-> "ValidationError", cause |-> ItemErrors(item)]
                /\ reply' = reply
           ELSE /\ pc' = "returned"
                /\ reply' = [kind |-> "item", item |-> ItemDump(item)]
                /\ exc' = exc
    /\ UNCHANGED <<inputs, world, engine>>

\* PromptConfig.model_validate({"system_prompt": value}).model_dump(), with
\* DEFAULT_PROMPT_CONFIG for a ValidationError (lines 271-280)
PromptConfig(value) ==
    IF IsStr(value) THEN [kind |-> "config", system_prompt |-> value.s]
    ELSE [kind |-> "config", system_prompt |-> DEFAULT_SYSTEM_PROMPT]

\* json.load of the file, {} when the file is absent or reading it raises
\* (lines 263-269)
ConfigData(file) ==
    IF file.exists /\ file.readable /\ file.valid THEN file.value ELSE ConfigObject(JMissing)

\* load_prompt_config(): data.get is an attribute only a dict has
LoadPromptConfig ==
    /\ pc = "start" /\ op = "load_prompt_config"
    /\ LET data == ConfigData(request)
       IN  IF data.t # "dict"
           THEN /\ pc' = "raised"
                /\ exc' = [type |-> "AttributeError", cause |-> NoError]
                /\ reply' = reply
           ELSE /\ pc' = "returned"
                /\ reply' = PromptConfig(IF data.system_prompt = JMissing
                                         THEN JStr(DEFAULT_SYSTEM_PROMPT)
                                         ELSE data.system_prompt)
                /\ exc' = exc
    /\ UNCHANGED <<inputs, world, engine>>

\* _extract_arguments(request)
ExtractArguments ==
    /\ pc = "start" /\ op = "_extract_arguments"
    /\ pc' = "returned"
    /\ reply' = [kind |-> "arguments", raw |-> _extract_arguments(request)]
    /\ UNCHANGED <<inputs, world, engine, exc>>

UnitNext ==
    \/ ExtractArguments
    \/ NormalizeOrders
    \/ ValidateItem
    \/ LoadPromptConfig

UnitSpec == UnitInit /\ [][UnitNext]_vars

\* ------------------------------------------------------------- the image API
ALLOWED_MIME_TYPES == {"image/jpeg", "image/jpg", "image/png", "image/heic", "image/heif"}

\* settings.max_image_bytes, by its default of 10 * 1024 * 1024
max_image_bytes == 10485760

\* an uploaded body: its length and its first bytes (the first twelve at most)
Body(head, size) == [head |-> head, size |-> size]

StartsWith(bytes, prefix) ==
    Len(bytes) >= Len(prefix) /\ SubSeq(bytes, 1, Len(prefix)) = prefix

JpegSignature == <<255, 216, 255>>
PngSignature == <<137, 80, 78, 71, 13, 10, 26, 10>>
Ftyp == <<102, 116, 121, 112>>
HeicBrands ==
    {<<104, 101, 105, 99>>, <<104, 101, 105, 120>>, <<104, 101, 118, 99>>,
     <<104, 101, 118, 120>>, <<109, 105, 102, 49>>, <<109, 115, 102, 49>>}

\* a faulty variant of _looks_like_image: every body passes
_looks_like_image_Any(content) == TRUE

_looks_like_image(content) ==
    IF StartsWith(content.head, JpegSignature) THEN TRUE
    ELSE IF StartsWith(content.head, PngSignature) THEN TRUE
    ELSE IF content.size >= 12 /\ SubSeq(content.head, 5, 8) = Ftyp
    THEN SubSeq(content.head, 9, 12) \in HeicBrands
    ELSE FALSE

\* the metadata form field, a string: empty, not JSON, or the text of a value
MetadataEmpty == [blank |-> TRUE, valid |-> FALSE, value |-> JNull]
MetadataInvalid == [blank |-> FALSE, valid |-> FALSE, value |-> JNull]
MetadataText(value) == [blank |-> FALSE, valid |-> TRUE, value |-> value]
MetadataDict(default_eintragender) == [t |-> "dict", default_eintragender |-> default_eintragender]

\* json.loads(metadata) if metadata else {} (line 67): [error, value]
ParseMetadata(metadata) ==
    IF metadata.blank THEN [error |-> FALSE, value |-> MetadataDict(JMissing)]
    ELSE IF ~metadata.valid THEN [error |-> TRUE, value |-> JNull]
    ELSE [error |-> FALSE, value |-> metadata.value]

Upload(content_type, content, metadata, api_key, x_request_id) ==
    [kind |-> "upload", content_type |-> content_type, content |-> content,
     metadata |-> metadata, OPENAI_API_KEY |-> api_key, x_request_id |-> x_request_id,
     authorization |-> JMissing, API_BEARER_TOKEN |-> JMissing]

\* the upload sent with an Authorization header to a server whose environment
\* sets API_BEARER_TOKEN
WithBearer(upload, authorization, token) ==
    [upload EXCEPT !.authorization = authorization, !.API_BEARER_TOKEN = token]

BodyJpeg == Body(JpegSignature \o <<224, 0, 16, 74, 70, 73, 70, 0, 1>>, 2048)
BodyPng == Body(PngSignature \o <<0, 0, 0, 13>>, 2048)
BodyHeic == Body(<<0, 0, 0, 24>> \o Ftyp \o <<104, 101, 105, 99>>, 4096)
BodyMif1 == Body(<<0, 0, 0, 24>> \o Ftyp \o <<109, 105, 102, 49>>, 12)
BodyAvif == Body(<<0, 0, 0, 24>> \o Ftyp \o <<97, 118, 105, 102>>, 4096)
BodyPdf == Body(<<37, 80, 68, 70, 45, 49, 46, 55>>, 8)

Bodies ==
    {Body(<<>>, 0), BodyJpeg, BodyPng, BodyHeic, BodyMif1, BodyAvif, BodyPdf,
     Body(<<255, 216>>, 2),
     Body(SubSeq(BodyHeic.head, 1, 11), 11),
     Body(BodyJpeg.head, max_image_bytes),
     Body(BodyJpeg.head, max_image_bytes + 1),
     Body(BodyPdf.head \o <<10, 37, 226, 227>>, max_image_bytes + 1)}

ContentTypes == {"image/jpeg", "image/heif", "image/gif", "application/pdf"}

MetadataTexts ==
    {MetadataEmpty, MetadataInvalid, MetadataText(JNull), MetadataText(JInt(5)),
     MetadataText(JList(<<>>))}
    \cup {MetadataText(MetadataDict(v)) : v \in MetadataValues}

ApiKeys == {JMissing, JStr(""), JStr("  "), JStr(" sk-test ")}

\* the Authorization headers a request may carry and the values the
\* environment may give API_BEARER_TOKEN
Authorizations ==
    {JMissing, JStr(""), JStr("Bearer secret"), JStr("Bearer  secret "),
     JStr("Bearer other"), JStr("Bearer secret x"), JStr("Bearer "), JStr("Bearer"),
     JStr("Bearersecret"), JStr("bearer secret"), JStr("Basic secret"), JStr("secret")}

BearerTokens == {JMissing, JStr(""), JStr("  "), JStr("secret"), JStr(" secret ")}

\* the uploads the model explores: every content type and body without a
\* credential, one image with every metadata text and credential, and an
\* image and a PDF with every Authorization header and configured token
Uploads ==
    {Upload(t, b, MetadataText(MetadataDict(JStr(" Anna "))), JMissing, x) :
        t \in ContentTypes, b \in Bodies, x \in {JMissing, JStr("req-1")}}
    \cup {Upload("image/jpeg", BodyJpeg, m, k, JMissing) : m \in MetadataTexts, k \in ApiKeys}
    \cup {WithBearer(Upload(t, BodyJpeg, MetadataEmpty, JMissing, JMissing), a, k) :
            t \in {"image/jpeg", "application/pdf"}, a \in Authorizations,
            k \in BearerTokens}

ApiInit ==
    /\ op = "verify_bearer_token"
    /\ target_key = ""
    /\ max_retries = 0
    /\ context = JMissing
    /\ product_file \in ProductFiles
    /\ today_year \in Years
    /\ request \in Uploads
    /\ pc = "start"
    /\ attempt = 0
    /\ messages = <<>>
    /\ tools = <<>>
    /\ sent = <<>>
    /\ outcomes = <<>>
    /\ last_raw_args = NoRaw
    /\ last_error = NoError
    /\ result = NoResult
    /\ exc = NoExc
    /\ reply = NoReply
    /\ NoThreads

\* str(n) of a non-negative int
RECURSIVE IntToStr(_)
IntToStr(n) ==
    IF n < 10 THEN Char(Digits, n + 1) ELSE IntToStr(n \div 10) \o Char(Digits, (n % 10) + 1)

\* a faulty variant of _stringify: None is printed as str(None)
_stringify_PrintsNone(value) ==
    IF value = JNull \/ value = JMissing THEN "None"
    ELSE IF IsStr(value) THEN value.s
    ELSE IntToStr(value.n)

\* _stringify(value) of the values an order holds
_stringify(value) ==
    IF value = JNull \/ value = JMissing THEN ""
    ELSE IF IsStr(value) THEN value.s
    ELSE IntToStr(value.n)

order_field_names ==
    <<"Notiz", "Abgeholt", "Datum", "Menge", "Produkt", "Eintragender", "Wohin", "Zahlung">>

\* _orders_to_rows(orders, columns) for the columns of order_field_names
_orders_to_rows(orders) ==
    [i \in 1..Len(orders) |-> [column \in FieldNames |-> _stringify(orders[i][column])]]

\* default_output_schema(default_eintragender)["orders"][0]
default_output_schema(default_eintragender) ==
    [Notiz |-> JNull, Abgeholt |-> JStr("Nein"), Datum |-> JNull, Menge |-> JInt(1),
     Produkt |-> JStr(""),
     Eintragender |-> IF default_eintragender # "" THEN JStr(default_eintragender) ELSE JNull,
     Wohin |-> JStr("Wieblingen"), Zahlung |-> JStr("Vor Ort")]

get_image_extraction_model == "gpt-4o"

ImageExtractResponse(request_id, columns, rows, orders, warnings) ==
    [kind |-> "response", status_code |-> 200, request_id |-> request_id, status |-> "ok",
     columns |-> columns, rows |-> rows, orders |-> orders, warnings |-> warnings,
     model_version |-> get_image_extraction_model]

HTTPException(status_code) == [kind |-> "HTTPException", status_code |-> status_code]

\* a faulty variant of _build_dummy_response: the warning is left out
_build_dummy_response_Silent(request_id, default_eintragender, warning) ==
    ImageExtractResponse(request_id, order_field_names,
                         _orders_to_rows(<<default_output_schema(default_eintragender)>>),
                         <<default_output_schema(default_eintragender)>>, <<>>)

\* _build_dummy_response(request_id, default_eintragender, warning, output_template)
_build_dummy_response(request_id, default_eintragender, warning) ==
    LET template == default_output_schema(default_eintragender)
        fallback_order ==
            IF default_eintragender # "" /\ ~Truthy(template.Eintragender)
            THEN [template EXCEPT !.Eintragender = JStr(default_eintragender)]
            ELSE template
    IN  ImageExtractResponse(request_id, order_field_names,
                             _orders_to_rows(<<fallback_order>>), <<fallback_order>>,
                             <<warning>>)

\* x_request_id or str(uuid.uuid4())
RequestId(x_request_id) == IF Truthy(x_request_id) THEN x_request_id.s ELSE "uuid4"

\* the checks of extract_from_image (lines 44-77), in order: the status code of
\* the first that fails, 0 when all pass
UploadCheck(upload) ==
    IF upload.content_type \notin ALLOWED_MIME_TYPES THEN 415
    ELSE IF upload.content.size = 0 THEN 400
    ELSE IF upload.content.size > max_image_bytes THEN 413
    ELSE IF ~_looks_like_image(upload.content) THEN 400
    ELSE IF ParseMetadata(upload.metadata).error THEN 422
    ELSE IF ParseMetadata(upload.metadata).value.t # "dict" THEN 422
    ELSE 0

\* settings.api_bearer_token (config.py line 9)
api_bearer_token(env) == Strip(PyStr(env))

\* a faulty variant of verify_bearer_token: any Bearer header passes
verify_bearer_token_AnyToken(authorization, configured_token) ==
    IF configured_token = "" THEN 0
    ELSE IF ~Truthy(authorization) \/ ~StartsWith(authorization.s, "Bearer ") THEN 401
    ELSE 0

\* verify_bearer_token(authorization): the status code it raises, 0 for none
verify_bearer_token(authorization, configured_token) ==
    IF configured_token = "" THEN 0
    ELSE IF ~Truthy(authorization) \/ ~StartsWith(authorization.s, "Bearer ") THEN 401
    ELSE IF Strip(SubSeq(authorization.s, 8, Len(authorization.s))) # configured_token THEN 401
    ELSE 0

\* Depends(verify_bearer_token) of the route (images.py line 41): the
\* dependency runs before the body of extract_from_image
VerifyBearerToken ==
    /\ pc = "start" /\ op = "verify_bearer_token"
    /\ IF verify_bearer_token(request.authorization,
                              api_bearer_token(request.API_BEARER_TOKEN)) # 0
       THEN /\ pc' = "unauthorized"
            /\ reply' = HTTPException(401)
            /\ op' = op
       ELSE /\ op' = "extract_from_image"
            /\ UNCHANGED <<pc, reply>>
    /\ UNCHANGED <<target_key, max_retries, context, product_file, today_year, request,
                   engine, exc, world>>

\* POST /api/v1/images/extract up to the call of extract_with_repair: the
\* upload checks of the route, then extract_orders_from_image up to line 172.
\* A rejected upload and a missing credential end the request here.
ExtractFromImage ==
    /\ pc = "start" /\ op = "extract_from_image"
    /\ LET status_code == UploadCheck(request)
           metadata == ParseMetadata(request.metadata).value
           default_eintragender == Strip(PyStr(metadata.default_eintragender))
           api_key == Strip(PyStr(request.OPENAI_API_KEY))
       IN  IF status_code # 0
           THEN /\ pc' = "rejected"
                /\ reply' = HTTPException(status_code)
                /\ UNCHANGED <<op, target_key, max_retries, context>>
           ELSE IF api_key = ""
           THEN /\ pc' = "responded"
                /\ reply' = _build_dummy_response(
                                RequestId(request.x_request_id), default_eintragender,
                                "OPENAI_API_KEY fehlt, dummy response verwendet.")
                /\ UNCHANGED <<op, target_key, max_retries, context>>
           ELSE /\ pc' = "start"
                /\ op' = "extract_with_repair"
                /\ target_key' = "orders_v1"
                /\ max_retries' = 2
                /\ context' = JStr(default_eintragender)
                /\ reply' = reply
    /\ UNCHANGED <<product_file, today_year, request, engine, exc, world>>

\* a faulty variant of Respond: a payload without orders is answered as it is
Respond_EmptyResult ==
    /\ request.kind = "upload" /\ pc \in {"returned", "raised"}
    /\ pc' = "responded"
    /\ LET request_id == RequestId(request.x_request_id)
           metadata == ParseMetadata(request.metadata).value
           default_eintragender == Strip(PyStr(metadata.default_eintragender))
       IN  reply' =
             IF pc = "raised"
             THEN _build_dummy_response(
                      request_id, default_eintragender,
                      "OpenAI extraction failed (" \o exc.type \o "), dummy response verwendet.")
             ELSE ImageExtractResponse(request_id, order_field_names,
                                       _orders_to_rows(result.orders), result.orders, <<>>)
    /\ UNCHANGED <<inputs, world, engine, exc>>

\* a faulty variant of Respond: an exception of the engine reaches the caller
Respond_Propagates ==
    /\ request.kind = "upload" /\ pc \in {"returned", "raised"}
    /\ pc' = "responded"
    /\ reply' =
         IF pc = "raised" THEN [HTTPException(500) EXCEPT !.kind = exc.type]
         ELSE ImageExtractResponse(RequestId(request.x_request_id), order_field_names,
                                   _orders_to_rows(result.orders), result.orders, <<>>)
    /\ UNCHANGED <<inputs, world, engine, exc>>

\* extract_orders_from_image once extract_with_repair has ended (lines 179-254)
Respond ==
    /\ request.kind = "upload" /\ pc \in {"returned", "raised"}
    /\ pc' = "responded"
    /\ LET request_id == RequestId(request.x_request_id)
           metadata == ParseMetadata(request.metadata).value
           default_eintragender == Strip(PyStr(metadata.default_eintragender))
       IN  reply' =
             IF pc = "raised"
             THEN _build_dummy_response(
                      request_id, default_eintragender,
                      "OpenAI extraction failed (" \o exc.type \o "), dummy response verwendet.")
             ELSE IF Len(result.orders) = 0
             THEN _build_dummy_response(request_id, default_eintragender,
                                        "Keine orders erkannt, dummy response verwendet.")
             ELSE ImageExtractResponse(request_id, order_field_names,
                                       _orders_to_rows(result.orders), result.orders, <<>>)
    /\ UNCHANGED <<inputs, world, engine, exc>>

ApiNext ==
    \/ VerifyBearerToken
    \/ ExtractFromImage
    \/ Lookup
    \/ AttemptProviderError
    \/ AttemptValidated
    \/ AttemptRepair
    \/ AttemptExhausted
    \/ Fallback
    \/ Respond

ApiSpec == ApiInit /\ [][ApiNext]_vars

\* ---------------------------------------------------------------- properties
\* ------------------------------------------- calls that run at the same time
\* The route hands every request to a thread-pool worker (images.py line 87),
\* so two extract_with_repair calls may run at once, their steps interleaved.
\* A call's frame holds its arguments and its locals; its message list is an
\* object of the heap, which the frame refers to; EXTRACTION_TARGETS is the one
\* object both calls read. A step is the lookup, one attempt or the fallback,
\* as in the actions of a single call, and steps is what the call has taken so
\* far: the LLM response or failure of an attempt, nothing for the others.
Workers == {1, 2}

Frame(key, retries, ctx) ==
    [target_key |-> key, max_retries |-> retries, context |-> ctx, pc |-> "start",
     attempt |-> 0, messages |-> 0, tools |-> <<>>, sent |-> <<>>, outcomes |-> <<>>,
     last_raw_args |-> NoRaw, last_error |-> NoError, result |-> NoResult, exc |-> NoExc]

NoInput == [kind |-> "none"]
ProviderFailure == [kind |-> "failure"]
Answer(r) == [kind |-> "response", response |-> r]

\* a faulty variant of NewList: every call uses the same list object
NewList_Shared(store) == 1

\* messages = [...] (line 129): a list object of the call's own
NewList(store) == Len(store) + 1

\* the heap once the object at ref holds value
Store(store, ref, value) ==
    IF ref \in DOMAIN store THEN [store EXCEPT ![ref] = value] ELSE Append(store, value)

Step(f, store) == [frame |-> f, store |-> store]

\* lines 119-135
LookupStep(f, store, targets) ==
    IF f.target_key \notin DOMAIN targets
          \/ targets[f.target_key].pattern # PATTERN_TOOL_CALL_REPAIR
    THEN Step([f EXCEPT !.pc = "raised",
                        !.exc = [type |-> "StructuredExtractionError", cause |-> NoError]],
              store)
    ELSE Step([f EXCEPT !.pc = "loop",
                        !.tools = _build_tools(targets[f.target_key]),
                        !.messages = NewList(store),
                        !.last_raw_args = EmptyObject],
              Store(store, NewList(store),
                    << Message("system", Prompt(system_prompt)),
                       Message("user", Prompt(user_content)) >>))

\* lines 148-165, for the raw arguments of the response and what the try block
\* makes of them; called is the frame after the LLM call
AttemptOutcome(called, store, raw_args, try) ==
    IF try.error = NoError
    THEN Step(IF try.exc # ""
              THEN [called EXCEPT !.outcomes = Append(@, Outcome("valid", raw_args)),
                                  !.pc = "raised",
                                  !.exc = [type |-> try.exc, cause |-> NoError]]
              ELSE [called EXCEPT !.outcomes = Append(@, Outcome("valid", raw_args)),
                                  !.pc = "returned",
                                  !.result =
                                      [orders |-> try.orders,
                                       trace |-> SuccessTrace(called.attempt, raw_args,
                                                              called.target_key, try.report)]],
              store)
    ELSE IF ~LastAttempt(called.attempt, called.max_retries)
    THEN Step([called EXCEPT !.outcomes = Append(@, Outcome("invalid", raw_args)),
                             !.last_error = try.error,
                             !.attempt = @ + 1],
              [store EXCEPT ![called.messages] =
                  Append(@, Message("user", _json_error_message(raw_args, try.error)))])
    ELSE Step([called EXCEPT !.outcomes = Append(@, Outcome("invalid", raw_args)),
                             !.last_error = try.error,
                             !.pc = "fallback"],
              store)

\* lines 138-165: the LLM call with the call's message list, then the try block
AttemptStep(f, store, event, env) ==
    IF event.kind = "failure"
    THEN Step([f EXCEPT !.sent = Append(@, store[f.messages]),
                        !.outcomes = Append(@, Outcome("error", NoRaw)),
                        !.pc = "raised",
                        !.exc = [type |-> "ProviderError", cause |-> NoError]],
              store)
    ELSE AttemptOutcome([f EXCEPT !.sent = Append(@, store[f.messages]),
                                  !.last_raw_args = _extract_arguments(event.response)],
                        store, _extract_arguments(event.response),
                        TryTable[env][_extract_arguments(event.response)])

\* lines 167-193
FallbackStep(f, store, norm) ==
    Step(IF norm.exc # ""
         THEN [f EXCEPT !.pc = "raised", !.exc = [type |-> norm.exc, cause |-> NoError]]
         ELSE IF Len(norm.orders) > 0
         THEN [f EXCEPT !.pc = "returned",
                        !.result = [orders |-> norm.orders,
                                    trace |-> FallbackTrace(f.max_retries, f.last_raw_args,
                                                            f.target_key, norm.report,
                                                            f.last_error)]]
         ELSE [f EXCEPT !.pc = "raised",
                        !.exc = [type |-> "StructuredExtractionError",
                                 cause |-> f.last_error]],
         store)

\* what the try block and the normalization of a call depend on besides the
\* raw arguments
Env(f) == <<DefaultTable[f.context], product_file, today_year>>

\* one step of the call with frame f
Advance(f, store, targets, event) ==
    CASE f.pc = "start" -> LookupStep(f, store, targets)
      [] f.pc = "loop" -> AttemptStep(f, store, event, Env(f))
      [] f.pc = "fallback" ->
            FallbackStep(f, store, SalvageTable[Env(f)][FallbackPayload(f.last_raw_args)])

\* what the LLM may answer to a call that runs beside another
PairResponses(last) ==
    {Response(<<Text(RawObject(JList(<<RowFull>>)))>>, NotAString),
     Response(<<Text(RawObject(JList(<<RowNegative, RowFull>>)))>>, NotAString),
     Response(<<>>, NotAString)}
    \cup (IF last THEN {Response(<<Text(RawText)>>, NotAString)} ELSE {})

\* the default_eintragender of the two calls
PairContexts == <<JStr(" Anna "), JMissing>>

PairInit ==
    /\ op = "run_in_threadpool"
    /\ target_key = "orders_v1"
    /\ max_retries = 0
    /\ context = JMissing
    /\ product_file \in ProductFiles
    /\ today_year = 2025
    /\ request = NoRequest
    /\ pc = "start"
    /\ attempt = 0
    /\ messages = <<>>
    /\ tools = <<>>
    /\ sent = <<>>
    /\ outcomes = <<>>
    /\ last_raw_args = NoRaw
    /\ last_error = NoError
    /\ result = NoResult
    /\ exc = NoExc
    /\ reply = NoReply
    /\ registry = EXTRACTION_TARGETS
    /\ heap = <<>>
    /\ disk = NoDisk
    /\ \E keys \in [Workers -> TargetKeys], retries \in [Workers -> 0..MaxRetriesBound] :
          threads = [w \in Workers |->
                        [frame |-> Frame(keys[w], retries[w], PairContexts[w]),
                         steps |-> <<>>]]

\* worker w takes the step that its frame is at
Take(w, event) ==
    /\ threads' = [threads EXCEPT
                      ![w] = [frame |-> Advance(threads[w].frame, heap, registry, event).frame,
                              steps |-> Append(threads[w].steps, event)]]
    /\ heap' = Advance(threads[w].frame, heap, registry, event).store
    /\ UNCHANGED <<inputs, pc, engine, exc, reply, registry, disk>>

CallLookup == \E w \in Workers : threads[w].frame.pc = "start" /\ Take(w, NoInput)

CallAttempt ==
    \E w \in Workers :
        /\ threads[w].frame.pc = "loop"
        /\ \E event \in {ProviderFailure}
                        \cup {Answer(r) :
                                r \in PairResponses(LastAttempt(threads[w].frame.attempt,
                                                                threads[w].frame.max_retries))} :
              Take(w, event)

CallFallback == \E w \in Workers : threads[w].frame.pc = "fallback" /\ Take(w, NoInput)

PairNext ==
    \/ CallLookup
    \/ CallAttempt
    \/ CallFallback

PairSpec == PairInit /\ [][PairNext]_vars

\* ------------------------------------------ the prompt file, saved and loaded
\* save_prompt_config in one process (the order page) and load_prompt_config in
\* another (a request of the API) work on the same file at CONFIG_PATH.

At(text, i) == IF i >= 1 /\ i <= Len(text) THEN Char(text, i) ELSE ""

\* the JSON encoding of a string of ASCII characters (json.dump, ensure_ascii),
\* character by character
EscapeChar(c) ==
    CASE c = "\"" -> "\\\""
      [] c = "\\" -> "\\\\"
      [] c = "\n" -> "\\n"
      [] OTHER -> c

RECURSIVE Escape(_)
Escape(s) ==
    IF Len(s) = 0 THEN ""
    ELSE IF Len(s) = 1 THEN EscapeChar(s)
    ELSE Escape(SubSeq(s, 1, Len(s) \div 2)) \o Escape(SubSeq(s, Len(s) \div 2 + 1, Len(s)))

JsonString(s) == "\"" \o Escape(s) \o "\""

\* the chunks json.dump(validated.model_dump(), handle, ensure_ascii=True,
\* indent=2) hands to handle.write, in order (line 290)
JsonChunks(prompt) ==
    <<"{", "\n  ", JsonString(system_prompt), ": ", JsonString(prompt), "\n", "}">>

RECURSIVE Join(_)
Join(chunks) == IF chunks = <<>> THEN "" ELSE Head(chunks) \o Join(Tail(chunks))

\* json.load(handle) (line 266) for the texts the file can hold: an object
\* with one string member, anything else is a JSONDecodeError
RECURSIVE SkipWhitespace(_, _)
SkipWhitespace(text, i) ==
    IF At(text, i) \in Whitespace THEN SkipWhitespace(text, i + 1) ELSE i

NoString == [ok |-> FALSE, value |-> "", next |-> 0]

\* the number of backslashes that stand directly before position i
RECURSIVE BackslashRun(_, _)
BackslashRun(text, i) ==
    IF At(text, i - 1) = "\\" THEN 1 + BackslashRun(text, i - 1) ELSE 0

\* position i of a string literal is escaped by the backslash before it
Escaped(text, i) == BackslashRun(text, i) % 2 = 1

\* the characters the JSON text from lo to hi stands for
RECURSIVE Unescape(_, _, _)
Unescape(text, lo, hi) ==
    IF lo > hi THEN ""
    ELSE IF lo = hi
    THEN (IF Escaped(text, lo) THEN (IF At(text, lo) = "n" THEN "\n" ELSE At(text, lo))
          ELSE IF At(text, lo) = "\\" THEN ""
          ELSE At(text, lo))
    ELSE Unescape(text, lo, (lo + hi) \div 2) \o Unescape(text, (lo + hi) \div 2 + 1, hi)

\* a string literal at position i: it ends at the first quote that is not
\* escaped, holds no raw line break and no escape but \", \\ and \n
ParseString(text, i) ==
    LET quotes == {j \in (i + 1)..Len(text) : At(text, j) = "\"" /\ ~Escaped(text, j)}
        close == CHOOSE j \in quotes : \A k \in quotes : j <= k
    IN  IF At(text, i) # "\"" \/ quotes = {} THEN NoString
        ELSE IF \E k \in (i + 1)..(close - 1) :
                    \/ At(text, k) = "\n"
                    \/ Escaped(text, k) /\ At(text, k) \notin {"\"", "\\", "n"}
        THEN NoString
        ELSE [ok |-> TRUE, value |-> Unescape(text, i + 1, close - 1), next |-> close + 1]

JSONDecodeError == [ok |-> FALSE, value |-> JNull]

json_load(text) ==
    LET open == SkipWhitespace(text, 1)
        key == ParseString(text, SkipWhitespace(text, open + 1))
        colon == SkipWhitespace(text, key.next)
        member == ParseString(text, SkipWhitespace(text, colon + 1))
        close == SkipWhitespace(text, member.next)
    IN  IF At(text, open) # "{" \/ ~key.ok THEN JSONDecodeError
        ELSE IF At(text, colon) # ":" \/ ~member.ok THEN JSONDecodeError
        ELSE IF At(text, close) # "}" \/ SkipWhitespace(text, close + 1) <= Len(text)
        THEN JSONDecodeError
        ELSE [ok |-> TRUE,
              value |-> ConfigObject(IF key.value = system_prompt THEN JStr(member.value)
                                     ELSE JMissing)]

\* the file at CONFIG_PATH as another process sees it
PromptFile(exists, text) == [kind |-> "file", exists |-> exists, text |-> text]

OldPrompt == "Extrahiere alle Bestellungen. "
NewPrompt == "Nenne \"Kunde\" zuerst,\ndann das Produkt."
OtherPrompt == "C:\\orders"

\* the file before the save: absent, written by an earlier save, or not JSON
PromptFiles ==
    {PromptFile(FALSE, ""), PromptFile(TRUE, "not json"),
     PromptFile(TRUE, Join(JsonChunks(OldPrompt))),
     PromptFile(TRUE, Join(JsonChunks(OtherPrompt)))}

\* the configs handed to save_prompt_config
SaveConfigs ==
    {ConfigObject(v) : v \in {JMissing, JNull, JInt(5), JStr(""), JStr(NewPrompt),
                              JStr(OtherPrompt)}}

\* what load_prompt_config returns for the text it read (lines 264-280)
Loaded(exists, text) ==
    LET data == IF exists /\ json_load(text).ok THEN json_load(text).value
                ELSE ConfigObject(JMissing)
    IN  PromptConfig(IF data.system_prompt = JMissing THEN JStr(DEFAULT_SYSTEM_PROMPT)
                     ELSE data.system_prompt).system_prompt

SaveCall(config) == [pc |-> "start", config |-> config, validated |-> "", written |-> 0]

LoadCall == [pc |-> "start", began |-> "", prompt |-> ""]

\* where the save is while the load takes a step
SavePhase ==
    CASE threads.save.pc = "start" -> "before"
      [] threads.save.pc \in {"done", "raised"} -> "after"
      [] OTHER -> "during"

ConfigInit ==
    /\ op = "save_prompt_config"
    /\ target_key = ""
    /\ max_retries = 0
    /\ context = JMissing
    /\ product_file \in ProductFiles
    /\ today_year = 2025
    /\ pc = "start"
    /\ attempt = 0
    /\ messages = <<>>
    /\ tools = <<>>
    /\ sent = <<>>
    /\ outcomes = <<>>
    /\ last_raw_args = NoRaw
    /\ last_error = NoError
    /\ result = NoResult
    /\ exc = NoExc
    /\ reply = NoReply
    /\ registry = EXTRACTION_TARGETS
    /\ heap = <<>>
    /\ \E file \in PromptFiles, config \in SaveConfigs :
          /\ request = [kind |-> "save", file |-> file, config |-> config]
          /\ disk = file
          /\ threads = [save |-> SaveCall(config), load |-> LoadCall]

\* lines 284-288: the merge, PromptConfig.model_validate (a ValidationError
\* for a system_prompt that is no string) and mkdir
SaveValidate ==
    /\ op = "save_prompt_config" /\ threads.save.pc = "start"
    /\ LET merged == IF threads.save.config.system_prompt = JMissing
                     THEN JStr(DEFAULT_SYSTEM_PROMPT)
                     ELSE threads.save.config.system_prompt
       IN  threads' = [threads EXCEPT
                          !.save.pc = IF IsStr(merged) THEN "validated" ELSE "raised",
                          !.save.validated = IF IsStr(merged) THEN merged.s ELSE ""]
    /\ UNCHANGED <<inputs, pc, engine, exc, reply, registry, heap, disk>>

\* line 289: CONFIG_PATH.open("w") creates the file or truncates it
SaveOpen ==
    /\ op = "save_prompt_config" /\ threads.save.pc = "validated"
    /\ disk' = PromptFile(TRUE, "")
    /\ threads' = [threads EXCEPT !.save.pc = "open"]
    /\ UNCHANGED <<inputs, pc, engine, exc, reply, registry, heap>>

\* line 290: json.dump writes the next chunk to the handle; the handle is
\* buffered, and whether the buffer goes to the file now or later depends on
\* its size
SaveWrite ==
    /\ op = "save_prompt_config" /\ threads.save.pc = "open"
    /\ threads.save.written < Len(JsonChunks(threads.save.validated))
    /\ threads' = [threads EXCEPT !.save.written = @ + 1]
    /\ \E flushed \in BOOLEAN :
          disk' = IF flushed
                  THEN PromptFile(TRUE, Join(SubSeq(JsonChunks(threads.save.validated), 1,
                                                    threads.save.written + 1)))
                  ELSE disk
    /\ UNCHANGED <<inputs, pc, engine, exc, reply, registry, heap>>

\* the end of the with block: the handle is flushed and closed
SaveClose ==
    /\ op = "save_prompt_config" /\ threads.save.pc = "open"
    /\ threads.save.written = Len(JsonChunks(threads.save.validated))
    /\ disk' = PromptFile(TRUE, Join(JsonChunks(threads.save.validated)))
    /\ threads' = [threads EXCEPT !.save.pc = "done"]
    /\ UNCHANGED <<inputs, pc, engine, exc, reply, registry, heap>>

\* line 263 of load_prompt_config: CONFIG_PATH.exists(); without the file the
\* call returns at once
LoadExists ==
    /\ op = "save_prompt_config" /\ threads.load.pc = "start"
    /\ threads' = [threads EXCEPT
                      !.load.began = SavePhase,
                      !.load.pc = IF disk.exists THEN "open" ELSE "returned",
                      !.load.prompt = IF disk.exists THEN "" ELSE Loaded(FALSE, "")]
    /\ UNCHANGED <<inputs, pc, engine, exc, reply, registry, heap, disk>>

\* lines 264-280: the file is read and parsed, the config validated and returned
LoadRead ==
    /\ op = "save_prompt_config" /\ threads.load.pc = "open"
    /\ threads' = [threads EXCEPT !.load.pc = "returned",
                                  !.load.prompt = Loaded(TRUE, disk.text)]
    /\ UNCHANGED <<inputs, pc, engine, exc, reply, registry, heap, disk>>

ConfigNext ==
    \/ SaveValidate
    \/ SaveOpen
    \/ SaveWrite
    \/ SaveClose
    \/ LoadExists
    \/ LoadRead

ConfigSpec == ConfigInit /\ [][ConfigNext]_vars

Terminated == pc \in {"returned", "raised"}

Extracting == op = "extract_with_repair"

\* the number of LLM calls issued so far
Calls == Len(sent)

\* attempts 0..n-1 were made and each failed schema validation
FirstFailed(n) ==
    /\ n <= Len(outcomes)
    /\ \A i \in 1..n : outcomes[i].verdict = "invalid"

\* what the call was made with
Allowed == allowed_product_values(product_file)

\* the ValidationError model_validate_json raises on raw_args, NoError if none
SchemaErrors(raw_args) == TryValidate(raw_args).error

IsPrefix(s, t) == Len(s) <= Len(t) /\ SubSeq(t, 1, Len(s)) = s

\* all max_retries + 1 attempts were made and failed schema validation
AllFailed ==
    /\ Extracting
    /\ Len(outcomes) = max_retries + 1
    /\ FirstFailed(max_retries + 1)

\* the raw output of the last attempt made
LastRaw == outcomes[Len(outcomes)].raw_arguments

\* the rows the salvage may look at: the orders list of a JSON object, or of
\* the object that is the first element of a top-level array
SalvageRows(raw) ==
    IF raw.kind = "object" /\ IsList(raw.orders) THEN raw.orders.rows
    ELSE IF raw.kind = "array" /\ Len(raw.elems) > 0 /\ raw.elems[1].kind = "object"
            /\ IsList(raw.elems[1].orders)
    THEN raw.elems[1].orders.rows
    ELSE <<>>

\* every row an output of the model may hold, validated as an OrderItem with
\* the default_eintragender of ctx injected, under every product list and year
ItemTable ==
    [e \in ContextValues \X ProductFiles \X Years |->
        [row \in {r \in ItemPool \cup SingleRows \cup {RowNegative} : IsRow(r)} |->
            model_validate(Candidate(row.f, Strip(PyStr(e[1]))),
                           allowed_product_values(e[2]), e[3])] @@ <<>>] @@ <<>>

\* the row as the call's normalization validates it, and as the schema does
Normalizing(row) == ItemTable[<<context, product_file, today_year>>][row]
Validating(row) == ItemTable[<<JMissing, product_file, today_year>>][row]

ValidItem(row) == IsRow(row) /\ ItemErrors(Normalizing(row)) = {}
SchemaValidItem(row) == IsRow(row) /\ ItemErrors(Validating(row)) = {}

\* the orders of raw that survive per-item validation, in order
DumpAll(kept) == [i \in 1..Len(kept) |-> ItemDump(Normalizing(kept[i]))]

Survivors(raw) == DumpAll(SelectSeq(SalvageRows(raw), ValidItem))

\* raw_args satisfies the schema of OrdersPayload: a JSON object whose orders,
\* if it holds any, are a list of valid items
SchemaValid(raw) ==
    /\ raw.kind = "object"
    /\ \/ raw.orders = JMissing
       \/ /\ IsList(raw.orders)
          /\ \A i \in 1..Len(raw.orders.rows) : SchemaValidItem(raw.orders.rows[i])

\* C1 (as stated): extract_with_repair never issues more than max_retries + 1
\* LLM calls, and a call that has ended, every LLM call of which gave a
\* response, issued exactly max_retries + 1 of them if and only if every
\* attempt failed schema validation.
C1_AsStated ==
    /\ Calls <= max_retries + 1
    /\ (/\ Terminated /\ Extracting /\ Calls >= 1
        /\ \A i \in 1..Len(outcomes) : outcomes[i].verdict # "error")
          => (Calls = max_retries + 1 <=> FirstFailed(Calls))

\* what is left of a call: the LLM calls it may still issue, and its position
Remaining ==
    3 * (max_retries + 1 - Calls)
    + (CASE pc = "start" -> 3 [] pc = "loop" -> 2 [] pc = "fallback" -> 1 [] OTHER -> 0)

\* C1 (amended): for every max_retries >= 0 and every sequence of responses,
\* extract_with_repair issues its LLM calls one at a time, each with its
\* outcome known before the next, never more than max_retries + 1 of them, and
\* ends by returning or raising: until it has ended it can always take a step,
\* and every step brings it nearer to the end. When every attempt fails schema
\* validation it issues exactly max_retries + 1 calls; and it issues exactly
\* max_retries + 1 calls if and only if each of the attempts 0..max_retries-1
\* fails schema validation, whatever the last attempt does.
C1_BoundedCalls ==
    /\ [](/\ Calls <= max_retries + 1
          /\ Len(outcomes) = Calls
          /\ Terminated \/ ENABLED Next
          /\ (Terminated /\ Extracting /\ Calls >= 1)
               => /\ FirstFailed(Calls) => Calls = max_retries + 1
                  /\ Calls = max_retries + 1 <=> FirstFailed(max_retries))
    /\ [][/\ Len(sent') \in {Len(sent), Len(sent) + 1}
          /\ Remaining' < Remaining
          /\ Remaining' >= 0]_vars

\* the last of three calls validates after two failures
C1_Witness ==
    /\ Terminated /\ Extracting
    /\ max_retries = 2 /\ Calls = 3
    /\ FirstFailed(2) /\ outcomes[3].verdict = "valid"

\* C2: if attempts 0..n-1 fail schema validation and attempt n <= max_retries
\* yields arguments that satisfy the schema, the call returns right after
\* attempt n with trace attempts = n + 1, makes no further LLM call, flags no
\* fallback, and the payload is what validation and normalization make of
\* attempt n's arguments alone.
C2_ReturnsAtFirstValid ==
    \A n \in 0..max_retries :
        (/\ Len(outcomes) = n + 1 /\ FirstFailed(n)
         /\ outcomes[n + 1].verdict # "error"
         /\ SchemaValid(outcomes[n + 1].raw_arguments))
        => /\ outcomes[n + 1].verdict = "valid"
           /\ pc = "returned"
           /\ ~ENABLED Next
           /\ Calls = n + 1
           /\ result.trace.attempts = n + 1
           /\ result.trace.fallback_used = FALSE
           /\ result.trace.raw_arguments = outcomes[n + 1].raw_arguments
           /\ result.orders =
                  TryValidate(outcomes[n + 1].raw_arguments).orders

\* the second attempt corrects the first
C2_Witness ==
    /\ pc = "returned" /\ Len(outcomes) = 2
    /\ outcomes[1].verdict = "invalid" /\ outcomes[2].verdict = "valid"
    /\ outcomes[1].raw_arguments = RawObject(JList(<<RowNegative, RowFull>>))
    /\ outcomes[2].raw_arguments = RawObject(JList(<<RowFull>>))
    /\ Len(result.orders) = 1

\* the repair message of a failed attempt: a user message holding the
\* attempt's raw JSON and its validation error
RepairMessageOf(outcome) ==
    Message("user", [text |-> "The following JSON failed schema validation.",
                     json |-> outcome.raw_arguments,
                     error |-> SchemaErrors(outcome.raw_arguments)])

\* C3: the message list sent on LLM call k is the system message and the user
\* message followed by exactly one repair message per earlier attempt 0..k-1,
\* each of which failed, in attempt order, the repair message of attempt j
\* holding attempt j's raw JSON and validation error; the conversation only
\* ever grows at its end.
C3_Conversation ==
    /\ [](\A k \in 1..Len(sent) :
            /\ Len(sent[k]) = k + 1
            /\ sent[k][1] = Message("system", Prompt(system_prompt))
            /\ sent[k][2] = Message("user", Prompt(user_content))
            /\ \A j \in 1..(k - 1) :
                  /\ outcomes[j].verdict = "invalid"
                  /\ SchemaErrors(outcomes[j].raw_arguments) # NoError
                  /\ sent[k][j + 2] = RepairMessageOf(outcomes[j]))
    /\ [][IsPrefix(messages, messages')]_vars

\* the third call carries the repair messages of two different failures
C3_Witness ==
    /\ Len(sent) = 3
    /\ outcomes[1].raw_arguments = RawArray(<<RawObject(JList(<<RowFull, RowBar>>)), RawScalar>>)
    /\ outcomes[2].raw_arguments = RawObject(JList(<<RowNegative, RowFull>>))
    /\ sent[3][3].content.error = {<<0, "model_type">>}
    /\ sent[3][4].content.error = {<<1, "Menge">>}

ArrayOfValidAndInvalid == RawArray(<<RawObject(JList(<<RowFull, RowZero>>))>>)

\* C4: when all max_retries + 1 attempts fail schema validation and at least
\* one order of the last raw output (a top-level array standing for its first
\* element) survives per-item validation, the call returns exactly the
\* surviving orders of that output with fallback_used = true, attempts =
\* max_retries + 1, the last validation error attached and dropped_orders
\* counting the rejected rows; a payload is flagged as fallback in no other
\* case. A last output that is a one-element array holding one valid and one
\* invalid order returns the valid order alone with dropped_orders = 1.
SalvagedAs(raw, rows, kept) ==
    /\ (Terminated /\ Len(kept) > 0)
         => /\ pc = "returned"
            /\ result.orders = kept
            /\ result.trace.fallback_used
            /\ result.trace.attempts = max_retries + 1
            /\ result.trace.raw_arguments = raw
            /\ result.trace.validation_error = SchemaErrors(raw)
            /\ result.trace.validation_error # NoError
            /\ result.trace.normalization =
                  [raw_orders |-> Len(rows), valid_orders |-> Len(kept),
                   dropped_orders |-> Len(rows) - Len(kept)]
    /\ (Terminated /\ raw = ArrayOfValidAndInvalid)
         => /\ pc = "returned"
            /\ Len(result.orders) = 1
            /\ result.orders[1].Produkt = JStr("Rustico")
            /\ result.orders[1].Menge = JInt(2)
            /\ result.trace.normalization.dropped_orders = 1

C4_FallbackSalvage ==
    /\ AllFailed => SalvagedAs(LastRaw, SalvageRows(LastRaw), Survivors(LastRaw))
    /\ (pc = "returned" /\ Extracting /\ result.trace.fallback_used)
         => AllFailed /\ Len(Survivors(LastRaw)) > 0

\* three failures, the last a one-element array with a valid and an invalid
\* order, the earlier ones holding other orders
C4_Witness ==
    /\ pc = "returned" /\ max_retries = 2 /\ AllFailed
    /\ outcomes[1].raw_arguments = RawArray(<<RawObject(JList(<<RowFull, RowBar>>)), RawScalar>>)
    /\ LastRaw = ArrayOfValidAndInvalid
    /\ result.trace.fallback_used
    /\ Len(result.orders) = 1

\* C5 (as stated): when all max_retries + 1 attempts fail schema validation
\* and the last raw output holds no order that survives per-item validation,
\* the call raises StructuredExtractionError with the last validation error as
\* its cause; no other exception escapes and no payload is returned.
C5_AsStated ==
    (Terminated /\ AllFailed /\ Len(Survivors(LastRaw)) = 0)
      => /\ pc = "raised"
         /\ exc.type = "StructuredExtractionError"
         /\ exc.cause = SchemaErrors(LastRaw)
         /\ result = NoResult

\* every attempt answers {"orders": null}: a TypeError leaves the call
C5_Witness ==
    /\ pc = "raised" /\ AllFailed
    /\ LastRaw = RawObject(JNull)
    /\ exc.type = "TypeError"

\* an output whose orders hold an item with a quantity of zero or less
NonPositive(raw) ==
    /\ raw.kind = "object" /\ IsList(raw.orders)
    /\ \E i \in 1..Len(raw.orders.rows) :
         /\ IsRow(raw.orders.rows[i])
         /\ IsInt(raw.orders.rows[i].f.Menge)
         /\ raw.orders.rows[i].f.Menge.n <= 0

\* C6: an attempt whose output holds an item with Menge <= 0 fails schema
\* validation, the error naming Menge; when attempts remain the loop goes on
\* to another LLM call with that attempt's repair message at the end of the
\* conversation, and every later call carries it; no validated (non-fallback)
\* result is made of such an output.
C6_NonPositiveMenge ==
    /\ \A i \in 1..Len(outcomes) :
         NonPositive(outcomes[i].raw_arguments)
         => /\ outcomes[i].verdict = "invalid"
            /\ \E e \in SchemaErrors(outcomes[i].raw_arguments) : e[2] = "Menge"
            /\ (i <= max_retries /\ Len(outcomes) = i)
                 => /\ pc = "loop" /\ attempt = i
                    /\ messages[Len(messages)] = RepairMessageOf(outcomes[i])
                    /\ ENABLED (AttemptValidated \/ AttemptRepair \/ AttemptExhausted)
            /\ \A k \in (i + 1)..Len(sent) : sent[k][i + 2] = RepairMessageOf(outcomes[i])
    /\ (pc = "returned" /\ Extracting /\ ~result.trace.fallback_used)
         => ~NonPositive(result.trace.raw_arguments)

\* a second call is issued after a first answer with a negative quantity
C6_Witness ==
    /\ Len(sent) = 2
    /\ NonPositive(outcomes[1].raw_arguments)
    /\ sent[2][3].content.json = outcomes[1].raw_arguments

\* an output whose orders mix a valid item with one that fails validation
Mixed(raw) ==
    /\ raw.kind = "object" /\ IsList(raw.orders)
    /\ \E i \in 1..Len(raw.orders.rows) : SchemaValidItem(raw.orders.rows[i])
    /\ \E i \in 1..Len(raw.orders.rows) : ~SchemaValidItem(raw.orders.rows[i])

\* C7 (as stated): an output that mixes valid items with an invalid one is
\* accepted at its attempt, the invalid item dropped and counted, the valid
\* ones returned.
C7_AsStated ==
    \A i \in 1..Len(outcomes) :
        Mixed(outcomes[i].raw_arguments)
        => /\ outcomes[i].verdict = "valid"
           /\ pc = "returned"
           /\ result.trace.normalization.dropped_orders >= 1

\* C7 (amended): an output that mixes valid items with an invalid one fails
\* schema validation as a whole at its attempt, so it is never returned on the
\* success path: every payload returned there holds all the rows of its output
\* and reports dropped_orders = 0. The invalid item is dropped and counted,
\* and the valid ones returned, only by the fallback, when the mixed output is
\* that of the last attempt.
C7_WholeBatchFails ==
    /\ \A i \in 1..Len(outcomes) :
         Mixed(outcomes[i].raw_arguments)
         => /\ outcomes[i].verdict = "invalid"
            /\ SchemaErrors(outcomes[i].raw_arguments) # NoError
    /\ (pc = "returned" /\ Extracting /\ ~result.trace.fallback_used)
         => /\ ~Mixed(result.trace.raw_arguments)
            /\ result.trace.normalization.dropped_orders = 0
            /\ result.trace.normalization.raw_orders = Len(result.orders)
            /\ Len(result.orders) = Len(SalvageRows(result.trace.raw_arguments))
    /\ (Terminated /\ AllFailed /\ Mixed(LastRaw))
         => /\ pc = "returned"
            /\ result.trace.fallback_used
            /\ result.trace.normalization.dropped_orders >= 1

\* a mixed first answer is met with a repair request, not accepted
C7_Witness ==
    /\ pc = "loop" /\ Len(outcomes) = 1
    /\ Mixed(outcomes[1].raw_arguments)
    /\ outcomes[1].verdict = "invalid"
    /\ Len(messages) = 3

\* C8: when the LLM call of an attempt raises, that exception leaves
\* extract_with_repair as it is: the call has ended with it, it was the last
\* LLM call, nothing is returned, and neither the fallback nor a
\* StructuredExtractionError takes its place.
C8_ProviderErrorPropagates ==
    \A i \in 1..Len(outcomes) :
        outcomes[i].verdict = "error"
        => /\ i = Len(outcomes) /\ Calls = i
           /\ pc = "raised"
           /\ exc = [type |-> "ProviderError", cause |-> NoError]
           /\ result = NoResult
           /\ ~ENABLED Next

\* the second call raises after a first answer that failed validation
C8_Witness ==
    /\ Len(outcomes) = 2
    /\ outcomes[1].verdict = "invalid"
    /\ outcomes[2].verdict = "error"
    /\ pc = "raised"

\* C9: extract_with_repair and get_tools_for_target, called with a key that
\* is not in the registry, raise StructuredExtractionError as their first and
\* only step: no LLM call, no conversation, no tools, no fallback.
C9_UnknownTarget ==
    (target_key \notin DOMAIN EXTRACTION_TARGETS)
      => /\ pc \in {"start", "raised"}
         /\ pc = "start" => ENABLED Next
         /\ pc = "raised"
              => /\ exc = [type |-> "StructuredExtractionError", cause |-> NoError]
                 /\ ~ENABLED Next
         /\ Calls = 0 /\ outcomes = <<>>
         /\ messages = <<>> /\ tools = <<>>
         /\ result = NoResult

\* extract_with_repair has raised for the key customers_v1
C9_Witness ==
    /\ Extracting
    /\ target_key = "customers_v1"
    /\ pc = "raised"
    /\ exc.type = "StructuredExtractionError"

\* the five labels of Zahlung
CanonicalZahlung == {"Vor Ort", "Online", "Per Rechnung", "Schon bezahlt", "Unklar"}

\* YYYY-MM-DDTHH:MM:SS of a date and a time that exist
IsoLocal(s) ==
    /\ Len(s) = 19
    /\ Char(s, 5) = "-" /\ Char(s, 8) = "-" /\ Char(s, 11) = "T"
    /\ Char(s, 14) = ":" /\ Char(s, 17) = ":"
    /\ IsDigits(SubSeq(s, 1, 4)) /\ IsDigits(SubSeq(s, 6, 7)) /\ IsDigits(SubSeq(s, 9, 10))
    /\ IsDigits(SubSeq(s, 12, 13)) /\ IsDigits(SubSeq(s, 15, 16)) /\ IsDigits(SubSeq(s, 18, 19))
    /\ ValidDate(ToInt(SubSeq(s, 1, 4)), ToInt(SubSeq(s, 6, 7)), ToInt(SubSeq(s, 9, 10)))
    /\ ValidTime(ToInt(SubSeq(s, 12, 13)), ToInt(SubSeq(s, 15, 16)), ToInt(SubSeq(s, 18, 19)))

\* +HH:MM or -HH:MM
IsoOffset(s) ==
    /\ Len(s) = 6
    /\ Char(s, 1) \in {"+", "-"} /\ Char(s, 4) = ":"
    /\ IsDigits(SubSeq(s, 2, 3)) /\ IsDigits(SubSeq(s, 5, 6))
    /\ ToInt(SubSeq(s, 2, 3)) < 24 /\ ToInt(SubSeq(s, 5, 6)) < 60

\* an ISO-8601 date-time, with or without a UTC offset
IsoDateTimeString(s) ==
    \/ IsoLocal(s)
    \/ Len(s) = 25 /\ IsoLocal(SubSeq(s, 1, 19)) /\ IsoOffset(SubSeq(s, 20, 25))

WellFormedItem(item) ==
    /\ IsInt(item.Menge) /\ item.Menge.n >= 1
    /\ item.Abgeholt \in {JStr("Ja"), JStr("Nein")}
    /\ IsStr(item.Produkt)
    /\ item.Produkt.s # "" /\ Strip(item.Produkt.s) = item.Produkt.s
    /\ item.Produkt.s \in Allowed
    /\ item.Zahlung = JNull \/ (IsStr(item.Zahlung) /\ item.Zahlung.s \in CanonicalZahlung)
    /\ item.Datum = JNull \/ (IsStr(item.Datum) /\ IsoDateTimeString(item.Datum.s))

\* C10: every order of every payload extract_with_repair returns, validated
\* or salvaged, has Menge >= 1, Abgeholt Ja or Nein, a Produkt that is trimmed,
\* non-empty and in the allowed product set, a Zahlung that is null or one of
\* the five labels, and a Datum that is null or an ISO-8601 date-time.
C10_ReturnedItems ==
    (pc = "returned" /\ Extracting)
      => \A i \in 1..Len(result.orders) : WellFormedItem(result.orders[i])

\* a salvaged payload of two orders, one dated from a short day.month., the
\* other dated in UTC, with a product of the product list and a payment label
\* normalized
C10_Witness ==
    /\ pc = "returned" /\ Extracting
    /\ result.trace.fallback_used
    /\ Len(result.orders) = 2
    /\ result.orders[1].Datum = JStr("2024-02-29T00:00:00")
    /\ result.orders[2].Datum = JStr("2025-01-07T09:30:00+00:00")
    /\ result.orders[2].Produkt = JStr("Dinkelbrot")
    /\ result.orders[2].Zahlung = JStr("Vor Ort")

\* ------------------------------------------------------------------------ C11
\* the length of the payload's orders list, 0 when the payload is no object or
\* its orders entry is no list
RawCount(payload) ==
    IF payload.kind = "object" /\ IsList(payload.orders) THEN Len(payload.orders.rows) ELSE 0

ReportOf(payload, orders, report) ==
    /\ report.raw_orders = RawCount(payload)
    /\ report.valid_orders = Len(orders)
    /\ 0 <= report.valid_orders /\ report.valid_orders <= report.raw_orders
    /\ report.dropped_orders = report.raw_orders - report.valid_orders

\* C11 as stated: for every payload given to validate_orders_payload_with_report
\* there is a normalization report, and it satisfies valid_orders = number of
\* returned orders, 0 <= valid_orders <= raw_orders and dropped_orders =
\* raw_orders - valid_orders, raw_orders being the length of the payload's orders
\* list and 0 for a payload that is no object or whose orders entry is no list.
C11_AsStated ==
    (op = "_normalize_orders" /\ pc # "start")
        => /\ pc = "returned"
           /\ ReportOf(request, reply.orders, reply.report)

\* what does hold: the report of every call that returns satisfies the equations
C11_ReportWhenReturned ==
    (op = "_normalize_orders" /\ pc = "returned")
        => ReportOf(request, reply.orders, reply.report)

\* and so does the report in every trace extract_with_repair returns
C11_ReportInTrace ==
    (Extracting /\ pc = "returned")
        => LET report == result.trace.normalization
           IN  /\ report.valid_orders = Len(result.orders)
               /\ report.valid_orders <= report.raw_orders
               /\ report.dropped_orders = report.raw_orders - report.valid_orders

\* a call whose payload has an orders entry that cannot be iterated
C11_NoReport ==
    /\ op = "_normalize_orders" /\ pc = "raised"
    /\ request = RawObject(JNull)
    /\ exc.type = "TypeError"

\* ------------------------------------------------------------------------ C12
\* the default the call injects, when the context supplies a non-empty string
SuppliedDefault == IF IsStr(context) THEN DefaultTable[context] ELSE ""

GivenBy(row) == IsStr(row.f.Eintragender) /\ Strip(row.f.Eintragender.s) # ""

\* C12 as stated: with a non-empty default_eintragender D in the context, every
\* item extract_with_repair returns (validated or fallback path) has the
\* Eintragender the LLM gave when that is non-blank, and D when the LLM gave
\* none (missing, null, empty or whitespace-only). Stated for the returns that
\* keep every row of the output, where item i comes from row i.
C12_AsStated ==
    (Extracting /\ pc = "returned" /\ SuppliedDefault # "")
        => LET rows == SalvageRows(result.trace.raw_arguments)
           IN  Len(result.orders) = Len(rows)
                 => \A i \in 1..Len(rows) :
                       result.orders[i].Eintragender =
                           IF GivenBy(rows[i]) THEN rows[i].f.Eintragender
                           ELSE JStr(SuppliedDefault)

\* what does hold on the validated path, where the schema has already turned a
\* blank Eintragender into null before the default is applied
C12_ValidatedPath ==
    (Extracting /\ pc = "returned" /\ SuppliedDefault # "" /\ ~result.trace.fallback_used)
        => LET rows == SalvageRows(result.trace.raw_arguments)
           IN  \A i \in 1..Len(rows) :
                  result.orders[i].Eintragender =
                      IF GivenBy(rows[i]) THEN rows[i].f.Eintragender
                      ELSE JStr(SuppliedDefault)

\* the fallback path returns an item whose whitespace-only Eintragender became
\* null although the context supplies a default
C12_BlankNotDefaulted ==
    /\ Extracting /\ pc = "returned" /\ SuppliedDefault = "Anna"
    /\ result.trace.fallback_used
    /\ result.trace.raw_arguments = RawArray(<<RawObject(JList(<<RowBlank>>))>>)
    /\ Len(result.orders) = 1
    /\ result.orders[1].Eintragender = JNull

\* ------------------------------------------------------------------------ C13
\* extract_orders_from_image has been called: the upload passed the route
Invoked == request.kind = "upload" /\ pc \notin {"start", "rejected", "unauthorized"}

KeyMissing == ~IsStr(request.OPENAI_API_KEY) \/ Strip(request.OPENAI_API_KEY.s) = ""

\* the default_eintragender the caller put into the metadata
CallerValue ==
    IF request.metadata.blank THEN JMissing
    ELSE request.metadata.value.default_eintragender

\* the order and the row of the template, with Eintragender as given
TemplateOrder(entered_by) ==
    [Notiz |-> JNull, Abgeholt |-> JStr("Nein"), Datum |-> JNull, Menge |-> JInt(1),
     Produkt |-> JStr(""), Eintragender |-> entered_by, Wohin |-> JStr("Wieblingen"),
     Zahlung |-> JStr("Vor Ort")]

TemplateRow(entered_by) ==
    [Notiz |-> "", Abgeholt |-> "Nein", Datum |-> "", Menge |-> "1", Produkt |-> "",
     Eintragender |-> entered_by, Wohin |-> "Wieblingen", Zahlung |-> "Vor Ort"]

\* the response is the single templated order and row; its Eintragender is the
\* caller's default when the caller gave a non-blank string, and null when the
\* caller gave none or an empty string
IsDummy(response) ==
    /\ response.kind = "response" /\ response.status = "ok"
    /\ Len(response.orders) = 1 /\ Len(response.rows) = 1
    /\ \E entered_by \in {JNull} \cup {JStr(e) : e \in Defaults \ {""}} :
          /\ response.orders = <<TemplateOrder(entered_by)>>
          /\ response.rows = <<TemplateRow(IF entered_by = JNull THEN "" ELSE entered_by.s)>>
          /\ IsStr(CallerValue) => entered_by = IF Strip(CallerValue.s) = "" THEN JNull
                                                ELSE JStr(Strip(CallerValue.s))
          /\ CallerValue = JMissing => entered_by = JNull

EngineRaised == Invoked /\ exc.type # ""

Contains(text, part) ==
    \E i \in 1..(Len(text) - Len(part) + 1) : SubSeq(text, i, i + Len(part) - 1) = part

\* C14: whatever exception extract_with_repair raises (a provider error, the
\* StructuredExtractionError after exhaustion, or any other), extract_orders_from_image
\* does not end with it: the only step the request takes from there is to its
\* response, and that response is the dummy single-row response with status
\* "ok" and one warning that names the exception class.
C14_EngineFailureBecomesDummy ==
    /\ [](EngineRaised
            => /\ pc \in {"raised", "responded"}
               /\ pc = "responded"
                    => /\ IsDummy(reply)
                       /\ Len(reply.warnings) = 1
                       /\ Contains(reply.warnings[1], exc.type))
    /\ [][(EngineRaised /\ pc = "raised") => (pc' = "responded" /\ exc' = exc)]_vars

C14_Witness ==
    /\ EngineRaised /\ pc = "responded"
    /\ exc.type = "TypeError"
    /\ reply.status = "ok"
    /\ reply.warnings = <<"OpenAI extraction failed (TypeError), dummy response verwendet.">>

\* ------------------------------------------------------------------------ C15
Degraded ==
    \/ KeyMissing
    \/ exc.type # ""
    \/ Len(result.orders) = 0
    \/ result.trace.fallback_used
    \/ result.trace.normalization.dropped_orders > 0

Signalled == Len(reply.warnings) > 0 \/ reply.status # "ok"

\* C15 as stated: whenever the extraction behind an image response was degraded
\* (credential missing, engine raised, no orders extracted, the engine returned
\* through its fallback path, or items were dropped) the response signals it by
\* a non-empty warnings list or a status other than "ok"; a response with empty
\* warnings and status "ok" stands only for a payload that passed schema
\* validation without fallback.
C15_AsStated ==
    (Invoked /\ pc = "responded" /\ Degraded) => Signalled

\* what does hold: a missing credential, an exception of the engine and an empty
\* list of orders are signalled by a warning
C15_DummySignalled ==
    (Invoked /\ pc = "responded" /\ (KeyMissing \/ exc.type # "" \/ Len(result.orders) = 0))
        => Len(reply.warnings) = 1

\* a response without any warning for orders salvaged on the fallback path, one
\* item of the LLM output having been dropped
C15_SilentFallback ==
    /\ Invoked /\ pc = "responded"
    /\ result.trace.fallback_used
    /\ result.trace.normalization.dropped_orders > 0
    /\ reply.status = "ok" /\ reply.warnings = <<>>
    /\ reply.orders = result.orders

\* ------------------------------------------------------------------------ C16
TypeAllowed(upload) ==
    upload.content_type \in {"image/jpeg", "image/jpg", "image/png", "image/heic", "image/heif"}

\* the bodies of the model that open with a JPEG, PNG or HEIC signature
HasSignature(content) == content.head \in {BodyJpeg.head, BodyPng.head, BodyHeic.head, BodyMif1.head}

\* the metadata field is the text of a JSON object (an empty field counts as
\* left out, which is the empty object)
MetadataIsObject(upload) ==
    upload.metadata.blank \/ (upload.metadata.valid /\ upload.metadata.value.t = "dict")

\* the code of the first check that fails, in the order of the claim; 0 for none
FirstFailure(upload) ==
    CASE ~TypeAllowed(upload) -> 415
      [] TypeAllowed(upload) /\ upload.content.size = 0 -> 400
      [] TypeAllowed(upload) /\ upload.content.size > max_image_bytes -> 413
      [] TypeAllowed(upload) /\ upload.content.size \in 1..max_image_bytes
           /\ ~HasSignature(upload.content) -> 400
      [] TypeAllowed(upload) /\ upload.content.size \in 1..max_image_bytes
           /\ HasSignature(upload.content) /\ ~MetadataIsObject(upload) -> 422
      [] OTHER -> 0

\* C16: POST /api/v1/images/extract, for a request the bearer check lets
\* through, invokes extract_orders_from_image only after
\* every upload check has passed, and otherwise answers with a 4xx without
\* invoking it; the first failing check decides the code, in this order: content
\* type not in the MIME allow-list 415, empty body 400, body larger than
\* max_image_bytes 413, no JPEG/PNG/HEIC signature 400, metadata not valid JSON
\* or not a JSON object 422.
C16_UploadChecks ==
    (request.kind = "upload" /\ pc \notin {"start", "unauthorized"})
        => /\ Invoked <=> FirstFailure(request) = 0
           /\ pc = "rejected"
                => /\ reply = [kind |-> "HTTPException", status_code |-> FirstFailure(request)]
                   /\ Calls = 0

C16_Witness ==
    /\ request.kind = "upload" /\ pc = "rejected"
    /\ reply.status_code = 413
    /\ TypeAllowed(request)
    /\ ~HasSignature(request.content)

\* ------------------------------------------------------------------------ C17
ValidatingItem == op = "OrderItem.model_validate"

\* the product list file is absent, has no product column or holds no name
NoProductList ==
    \/ ~product_file.present
    \/ ~product_file.has_column
    \/ \A n \in product_file.names : Strip(n) = ""

GivenProduct == request.f.Produkt

NonEmptyProduct == IsStr(GivenProduct) /\ Strip(GivenProduct.s) # ""

\* the rows of the model in which only the product varies
ProductRow == request \in {RowOf(JMissing, JMissing, JMissing, p, JMissing) : p \in ProductInputs}

BuiltInProducts == {"Kardamomknoten", "Zimtknoten", "Rustico", "Classico", "Baguette"}

\* C17 as stated: when the product list file is absent (or has no usable product
\* column) the allow-list is empty and the membership constraint is skipped, so
\* OrderItem validation accepts any product that is non-empty after trimming.
C17_AsStated ==
    (ValidatingItem /\ pc # "start" /\ ProductRow /\ NoProductList /\ NonEmptyProduct)
        => /\ pc = "returned"
           /\ reply.item.Produkt = JStr(Strip(GivenProduct.s))

\* C17 amended: without a product list the allow-list is the built-in list of
\* five products and membership in it is enforced: validation accepts the
\* trimmed product when it is one of the five and otherwise rejects the item
\* with a ValidationError on Produkt; nothing else is raised.
C17_BuiltInList ==
    (ValidatingItem /\ pc # "start" /\ ProductRow /\ NoProductList)
        => IF NonEmptyProduct /\ Strip(GivenProduct.s) \in BuiltInProducts
           THEN pc = "returned" /\ reply.item.Produkt = JStr(Strip(GivenProduct.s))
           ELSE pc = "raised" /\ exc = [type |-> "ValidationError", cause |-> {"Produkt"}]

C17_Witness ==
    /\ ValidatingItem /\ pc = "raised"
    /\ ~product_file.present
    /\ GivenProduct = JStr("Dinkelbrot")
    /\ exc.cause = {"Produkt"}

\* ------------------------------------------------------------------------ C18
LoadingConfig == op = "load_prompt_config"

\* the file holds a JSON object with a string system_prompt
StoredPrompt ==
    /\ request.exists /\ request.readable /\ request.valid
    /\ request.value.t = "dict"
    /\ IsStr(request.value.system_prompt)

\* C18 as stated: load_prompt_config never raises and returns a configuration
\* whose system_prompt is a string: the stored system_prompt when the file holds
\* a JSON object with a string system_prompt, and the default system prompt for
\* every other file state (missing, unreadable, not valid JSON, valid JSON that
\* is not an object, system_prompt absent or not a string).
C18_AsStated ==
    (LoadingConfig /\ pc # "start")
        => /\ pc = "returned"
           /\ reply.system_prompt =
                IF StoredPrompt THEN request.value.system_prompt.s ELSE DEFAULT_SYSTEM_PROMPT

\* what does hold: the claim for every file that is absent, unreadable, not
\* JSON or a JSON object
C18_ObjectOrNoData ==
    (LoadingConfig /\ pc # "start"
       /\ ~(request.exists /\ request.readable /\ request.valid /\ request.value.t # "dict"))
        => /\ pc = "returned"
           /\ reply.system_prompt =
                IF StoredPrompt THEN request.value.system_prompt.s ELSE DEFAULT_SYSTEM_PROMPT

\* the file holds a JSON array and the call raises
C18_NotAnObject ==
    /\ LoadingConfig /\ pc = "raised"
    /\ request.valid /\ request.value = JList(<<>>)
    /\ exc.type = "AttributeError"

\* ------------------------------------------------------------------------ C19
IsBlank(v) == IsStr(v) /\ Strip(v.s) = ""

\* C19 as stated: OrderItem validation coerces an empty or whitespace-only
\* string to null in every optional free-text field, Notiz/Kunde, Eintragender
\* and Wohin, so no validated item carries an empty or blank string in any of
\* the three.
C19_AsStated ==
    (ValidatingItem /\ pc = "returned")
        => \A name \in {"Notiz", "Eintragender", "Wohin"} :
              /\ ~IsBlank(reply.item[name])
              /\ IsBlank(request.f[name]) => reply.item[name] = JNull

\* what does hold: the coercion in Notiz/Kunde and Eintragender
C19_NoteAndEnteredBy ==
    (ValidatingItem /\ pc = "returned")
        => \A name \in {"Notiz", "Eintragender"} :
              /\ ~IsBlank(reply.item[name])
              /\ IsBlank(request.f[name]) => reply.item[name] = JNull

\* a validated item whose Wohin is the whitespace the input gave
C19_BlankWohin ==
    /\ ValidatingItem /\ pc = "returned"
    /\ request.f.Wohin = JStr("  ")
    /\ reply.item.Wohin = JStr("  ")

\* ------------------------------------------------------------------------ C20
GivenPayment == request.f.Zahlung

\* the rows of the model in which only the payment varies
PaymentRow ==
    request \in {RowOf(JMissing, JMissing, JMissing, JStr("Rustico"), z) : z \in PaymentInputs}

\* the canonical label of a trimmed, lower-cased payment, "" when it has none
CanonicalOf(text) ==
    CASE text \in {"vor ort"} -> "Vor Ort"
      [] text \in {"online"} -> "Online"
      [] text \in {"per rechnung", "rechnung"} -> "Per Rechnung"
      [] text \in {"schon bezahlt", "bezahlt"} -> "Schon bezahlt"
      [] text \in {"unklar"} -> "Unklar"
      [] OTHER -> ""

\* C20: payment normalization trims and lower-cases the input and maps each
\* listed synonym to its canonical label regardless of case; every canonical
\* label maps to itself; a non-blank value without mapping (such as "Bar") is
\* passed through unchanged, and the item is then rejected by the enum.
C20_PaymentNormalization ==
    (ValidatingItem /\ pc # "start" /\ PaymentRow /\ IsStr(GivenPayment)
       /\ ~IsBlank(GivenPayment))
        => LET label == CanonicalOf(Lower(Strip(GivenPayment.s)))
           IN  /\ GivenPayment.s \in ZahlungValues => label = GivenPayment.s
               /\ IF label # ""
                  THEN pc = "returned" /\ reply.item.Zahlung = JStr(label)
                  ELSE /\ _normalize_zahlung(GivenPayment) = GivenPayment
                       /\ pc = "raised"
                       /\ exc = [type |-> "ValidationError", cause |-> {"Zahlung"}]

C20_Witness ==
    /\ ValidatingItem /\ pc = "returned"
    /\ GivenPayment = JStr(" VOR ORT ")
    /\ reply.item.Zahlung = JStr("Vor Ort")

C20_WitnessRejected ==
    /\ ValidatingItem /\ pc = "raised"
    /\ GivenPayment = JStr("Bar")
    /\ exc.cause = {"Zahlung"}

\* ------------------------------------------------------------------------ C21
GivenDate == request.f.Datum

\* the rows of the model in which only the date varies, and the payloads that
\* hold one such row
DateRow == request \in {RowDated(d) : d \in DateInputs}

NormalizingOrders == op = "_normalize_orders"

DatePayload == request \in {RawObject(JList(<<RowDated(d)>>)) : d \in DateInputs}

PayloadDate == request.orders.rows[1].f.Datum

\* no accepted format takes the string: not the ISO parse, none of the date-time
\* and date-only formats, and not the short pattern
Unparseable(s) ==
    /\ ~FromIsoFormat(ReplaceZ(Strip(s))).ok
    /\ ~FirstParse(Strip(s), datetime_formats \o date_formats).ok
    /\ ~ShortDate(RemoveSpaces(Strip(s))).match

UnparseableDates == {d \in DateInputs : Unparseable(d)}

\* C21: a date string that matches none of the accepted formats is normalized
\* to null and nothing is raised: the item validates with Datum = null, and a
\* payload that holds it comes back from normalization with the item kept and
\* nothing dropped.
C21_MalformedDateIsNull ==
    /\ MalformedDates \cup ImpossibleDates \subseteq UnparseableDates
    /\ (ValidatingItem /\ pc # "start" /\ DateRow /\ GivenDate.s \in UnparseableDates)
          => /\ pc = "returned"
             /\ reply.item.Datum = JNull
    /\ (NormalizingOrders /\ pc # "start" /\ DatePayload /\ PayloadDate.s \in UnparseableDates)
          => /\ pc = "returned"
             /\ Len(reply.orders) = 1
             /\ reply.orders[1].Datum = JNull
             /\ reply.report.dropped_orders = 0

C21_Witness ==
    /\ ValidatingItem /\ pc = "returned"
    /\ GivenDate = JStr("morgen")
    /\ reply.item.Datum = JNull

C21_WitnessKept ==
    /\ NormalizingOrders /\ pc = "returned"
    /\ DatePayload /\ PayloadDate = JStr("07.01.2025 um 9")
    /\ Len(reply.orders) = 1

\* ------------------------------------------------------------------------ C22
\* the short form: one or two digits, a dot, one or two digits and an optional
\* dot, once the spaces are removed; a and b are the lengths of the two fields
ShortShape(c, a, b) ==
    /\ Len(c) \in {a + 1 + b, a + 2 + b}
    /\ IsDigits(SubSeq(c, 1, a))
    /\ Char(c, a + 1) = "."
    /\ IsDigits(SubSeq(c, a + 2, a + 1 + b))
    /\ Len(c) = a + 2 + b => Char(c, Len(c)) = "."

ShortForm(s) == \E a \in 1..2, b \in 1..2 : ShortShape(RemoveSpaces(s), a, b)

DayLength(s) == CHOOSE a \in 1..2 : \E b \in 1..2 : ShortShape(RemoveSpaces(s), a, b)

DayGiven(s) == ToInt(SubSeq(RemoveSpaces(s), 1, DayLength(s)))

MonthGiven(s) ==
    ToInt(SubSeq(RemoveSpaces(s), DayLength(s) + 2,
                 IF Char(RemoveSpaces(s), Len(RemoveSpaces(s))) = "."
                 THEN Len(RemoveSpaces(s)) - 1 ELSE Len(RemoveSpaces(s))))

\* the days of month m in year y
MonthDays(y, m) ==
    <<31, IF y % 4 = 0 /\ (y % 100 # 0 \/ y % 400 = 0) THEN 29 ELSE 28, 31, 30, 31, 30,
      31, 31, 30, 31, 30, 31>>[m]

DayExists(y, m, d) == m \in 1..12 /\ d \in 1..MonthDays(y, m)

Midnight(y, m, d) == Pad(y, 4) \o "-" \o Pad(m, 2) \o "-" \o Pad(d, 2) \o "T00:00:00"

\* C22: a date string of the short form D.M. is normalized to midnight of day
\* D, month M of the current year in ISO-8601 form when that day exists, and
\* to null, without raising, when it does not.
C22_ShortDate ==
    (ValidatingItem /\ pc # "start" /\ DateRow /\ ShortForm(GivenDate.s))
        => /\ pc = "returned"
           /\ reply.item.Datum =
                IF DayExists(today_year, MonthGiven(GivenDate.s), DayGiven(GivenDate.s))
                THEN JStr(Midnight(today_year, MonthGiven(GivenDate.s), DayGiven(GivenDate.s)))
                ELSE JNull

C22_Witness ==
    /\ ValidatingItem /\ pc = "returned"
    /\ GivenDate = JStr(" 3 . 4 . ") /\ today_year = 2025
    /\ reply.item.Datum = JStr("2025-04-03T00:00:00")

C22_WitnessImpossible ==
    /\ ValidatingItem /\ pc = "returned"
    /\ GivenDate = JStr("29.2.") /\ today_year = 2025
    /\ reply.item.Datum = JNull

\* ------------------------------------------------------------------------ C23
\* the defaults the fields of OrderItem declare (Menge and Produkt have none)
DeclaredDefaults ==
    [Notiz |-> JNull, Abgeholt |-> JStr("Nein"), Datum |-> JNull, Menge |-> JMissing,
     Produkt |-> JMissing, Eintragender |-> JNull, Wohin |-> JStr("Wieblingen"),
     Zahlung |-> JStr("Vor Ort")]

\* the row as given, absent fields taking their declared defaults
WithDefaults(row) ==
    [name \in FieldNames |->
        IF row.f[name] = JMissing THEN DeclaredDefaults[name] ELSE row.f[name]]

StringOrNull(v) == v \in {JMissing, JNull} \/ IsStr(v)

\* the JSON schema of OrderItem: an integer quantity of at least 1, a product
\* of the enumeration, the literals of Abgeholt and Zahlung, strings or null
\* elsewhere
MatchesItemSchema(row) ==
    /\ IsRow(row)
    /\ IsInt(row.f.Menge) /\ row.f.Menge.n >= 1
    /\ IsStr(row.f.Produkt) /\ row.f.Produkt.s \in Allowed
    /\ row.f.Abgeholt \in {JMissing} \cup {JStr(a) : a \in AbgeholtValues}
    /\ row.f.Zahlung \in {JMissing, JNull} \cup {JStr(z) : z \in ZahlungValues}
    /\ \A name \in {"Notiz", "Datum", "Eintragender", "Wohin"} : StringOrNull(row.f[name])

\* the JSON schema of OrdersPayload
MatchesToolSchema(raw) ==
    /\ raw.kind = "object"
    /\ \/ raw.orders = JMissing
       \/ /\ IsList(raw.orders)
          /\ \A i \in 1..Len(raw.orders.rows) : MatchesItemSchema(raw.orders.rows[i])

\* the payload a return was made from: the raw arguments of the validating
\* attempt, or what the fallback path hands to validate_orders_payload
ReturnedFrom ==
    IF result.trace.fallback_used THEN FallbackPayload(result.trace.raw_arguments)
    ELSE result.trace.raw_arguments

RowsOf(raw) == IF IsList(raw.orders) THEN raw.orders.rows ELSE <<>>

\* C23 as stated: a payload that matches the tool schema validates at its
\* attempt, no item is dropped, and the payload returned is field-for-field
\* equal to the input, absent optional fields taking their declared defaults.
C23_AsStated ==
    /\ \A i \in 1..Len(outcomes) :
          (outcomes[i].verdict # "error" /\ MatchesToolSchema(outcomes[i].raw_arguments))
              => outcomes[i].verdict = "valid"
    /\ (Extracting /\ pc = "returned" /\ MatchesToolSchema(ReturnedFrom))
          => /\ Len(result.orders) = Len(RowsOf(ReturnedFrom))
             /\ \A i \in 1..Len(result.orders) :
                   result.orders[i] = WithDefaults(RowsOf(ReturnedFrom)[i])

\* the fields of a row after the normalization OrderItem declares: the date in
\* its normalized form, a blank note as null; the Eintragender is left out
Normal(row) ==
    [WithDefaults(row) EXCEPT
        !.Datum = _normalize_datum(@, today_year),
        !.Notiz = IF IsBlank(@) THEN JNull ELSE @]

\* C23 amended: a payload that matches the tool schema validates at its
\* attempt, the call returns with no item dropped, and every returned item
\* equals its input row, absent fields taking their declared defaults, in
\* Abgeholt, Menge, Produkt, Wohin and Zahlung; Datum is the normalized date,
\* a blank Notiz/Kunde is null, and Eintragender is the input when that is
\* non-blank and otherwise null or the call's default_eintragender.
C23_EqualUpToNormalization ==
    /\ \A i \in 1..Len(outcomes) :
          (outcomes[i].verdict # "error" /\ MatchesToolSchema(outcomes[i].raw_arguments))
              => /\ outcomes[i].verdict = "valid"
                 /\ pc = "returned"
                 /\ result.trace.raw_arguments = outcomes[i].raw_arguments
    /\ (Extracting /\ pc = "returned" /\ MatchesToolSchema(ReturnedFrom))
          => /\ Len(result.orders) = Len(RowsOf(ReturnedFrom))
             /\ result.trace.normalization.dropped_orders = 0
             /\ \A i \in 1..Len(result.orders) :
                   LET row == RowsOf(ReturnedFrom)[i]
                   IN  /\ [result.orders[i] EXCEPT !.Eintragender = JNull]
                          = [Normal(row) EXCEPT !.Eintragender = JNull]
                       /\ IF GivenBy(row)
                          THEN result.orders[i].Eintragender = row.f.Eintragender
                          ELSE result.orders[i].Eintragender
                                  \in {JNull, JStr(DefaultTable[context])}

\* a row that holds every field in its validated form comes back unchanged
C23_Witness ==
    /\ Extracting /\ pc = "returned" /\ ~result.trace.fallback_used
    /\ context = JStr(" Anna ")
    /\ ReturnedFrom = RawObject(JList(<<RowClean>>))
    /\ result.orders = <<RowClean.f>>

\* a row that matches the schema comes back with another date than it held
C23_WitnessDate ==
    /\ Extracting /\ pc = "returned" /\ today_year = 2024
    /\ ReturnedFrom = RawObject(JList(<<RowMinimal>>))
    /\ result.orders[1].Datum = JStr("2024-02-29T00:00:00")

\* ------------------------------------------------------------------------ C24
\* an ImageExtractResponse was returned
Answered == pc = "responded" /\ reply.kind = "response"

ColumnSet(columns) == {columns[i] : i \in 1..Len(columns)}

\* text is the decimal print of n
PrintOf(text, n) ==
    /\ IsDigits(text)
    /\ ToInt(text) = n
    /\ Len(text) = 1 \/ Char(text, 1) # "0"

\* text is the stringified value: "" for null, the string itself, the decimal
\* print of a number
StringOf(text, value) ==
    CASE value = JNull -> text = ""
      [] IsStr(value) -> text = value.s
      [] IsInt(value) -> PrintOf(text, value.n)
      [] OTHER -> FALSE

\* C24: in every ImageExtractResponse extract_orders_from_image returns, rows
\* has the length and order of orders, the keys of every row are the declared
\* columns, and the value of row i for a column is the stringified value of
\* order i for it: "" for null, a string as it is, a number printed.
C24_RowsMirrorOrders ==
    Answered
        => /\ Len(reply.rows) = Len(reply.orders)
           /\ Len(reply.columns) = Cardinality(ColumnSet(reply.columns))
           /\ \A i \in 1..Len(reply.rows) :
                 /\ DOMAIN reply.rows[i] = ColumnSet(reply.columns)
                 /\ DOMAIN reply.orders[i] = ColumnSet(reply.columns)
                 /\ \A column \in ColumnSet(reply.columns) :
                       StringOf(reply.rows[i][column], reply.orders[i][column])

\* two extracted orders, one of them without a date
C24_Witness ==
    /\ Answered /\ reply.warnings = <<>>
    /\ Len(reply.orders) = 2
    /\ reply.orders[1].Datum = JNull /\ reply.rows[1].Datum = ""
    /\ reply.orders[2].Menge = JInt(2) /\ reply.rows[2].Menge = "2"
    /\ reply.rows[2].Produkt = "Rustico"

\* ------------------------------------------------------------------------ C25
\* the call of frame f run alone, from its start, on the steps it has taken
RECURSIVE Replay(_, _, _)
Replay(f, store, steps) ==
    IF Len(steps) = 0 THEN Step(f, store)
    ELSE Replay(Advance(f, store, EXTRACTION_TARGETS, Head(steps)).frame,
                Advance(f, store, EXTRACTION_TARGETS, Head(steps)).store,
                Tail(steps))

RunAlone(w) ==
    Replay(Frame(threads[w].frame.target_key, threads[w].frame.max_retries,
                 threads[w].frame.context),
           <<>>, threads[w].steps)

\* a frame with the content of its message list in place of the reference
Locals(f, store) ==
    [f EXCEPT !.messages = IF f.messages \in DOMAIN store THEN store[f.messages] ELSE <<>>]

\* C25: two extract_with_repair calls whose steps interleave do not interfere:
\* each call has a message list of its own, no step changes the registry, and
\* each call's locals, with its result, attempt count, trace and the messages
\* it sent, are at every moment what the call produces when it runs alone on
\* the responses it got.
C25_NoInterference ==
    /\ [](/\ registry = EXTRACTION_TARGETS
          /\ \A v, w \in Workers :
                (v # w /\ threads[v].frame.messages # 0)
                    => threads[v].frame.messages # threads[w].frame.messages
          /\ \A w \in Workers :
                Locals(threads[w].frame, heap) = Locals(RunAlone(w).frame, RunAlone(w).store))
    /\ [][registry' = registry]_vars

\* both calls have ended after a repair each, the second on the list created
\* first, with different results
C25_Witness ==
    /\ threads[1].frame.pc = "returned" /\ threads[2].frame.pc = "returned"
    /\ threads[2].frame.messages = 1 /\ threads[1].frame.messages = 2
    /\ Len(heap[1]) = 3 /\ Len(heap[2]) = 3
    /\ threads[1].frame.result.trace.attempts = 2
    /\ threads[2].frame.result.trace.attempts = 2
    /\ Len(threads[2].frame.result.orders) = 0
    /\ Len(threads[1].frame.result.orders) = 1
    /\ threads[1].frame.result.orders[1].Eintragender = JStr("Ben")

\* ------------------------------------------------------------------------ C26
ExtractingArguments == op = "_extract_arguments"

\* the value is a string that is not blank
NonBlank(v) == v.str /\ ~v.blank

ToolCallPresent == Len(request.tool_calls) > 0

\* C26 as stated: the candidate JSON is the first tool call's arguments string
\* whenever a tool call is present, whatever the content; the content only
\* when no tool call is present; and "{}" when neither yields a non-blank
\* string.
C26_AsStated ==
    (ExtractingArguments /\ pc = "returned")
        => reply.raw =
             IF ToolCallPresent
             THEN (IF NonBlank(request.tool_calls[1]) THEN request.tool_calls[1].raw
                   ELSE EmptyObject)
             ELSE (IF NonBlank(request.content) THEN request.content.raw ELSE EmptyObject)

\* C26 amended: the candidate JSON is the first tool call's arguments whenever
\* a tool call is present and its arguments are a non-blank string, whatever
\* the content; otherwise (no tool call, or arguments that are no string or
\* blank) it is the content when that is a non-blank string; and "{}" when
\* neither is. Later tool calls are never looked at.
C26_ArgumentsThenContent ==
    (ExtractingArguments /\ pc = "returned")
        => reply.raw =
             IF ToolCallPresent /\ NonBlank(request.tool_calls[1])
             THEN request.tool_calls[1].raw
             ELSE IF NonBlank(request.content) THEN request.content.raw
             ELSE EmptyObject

\* a tool call with blank arguments beside a content that holds JSON
C26_Witness ==
    /\ ExtractingArguments /\ pc = "returned"
    /\ request = Response(<<BlankString>>, Text(RawObject(JList(<<RowBar>>))))
    /\ reply.raw = RawObject(JList(<<RowBar>>))

\* a tool call with arguments beside a content: the arguments win
C26_WitnessBoth ==
    /\ ExtractingArguments /\ pc = "returned"
    /\ request = Response(<<Text(RawText), Text(EmptyObject)>>, Text(RawScalar))
    /\ reply.raw = RawText

\* ------------------------------------------------------------------------ C27
\* the bearer check of the request has been made
Checked == request.kind = "upload" /\ ~(pc = "start" /\ op = "verify_bearer_token")

Unauthorized == pc = "unauthorized"

\* API_BEARER_TOKEN as configured: the variable of the environment, trimmed
ConfiguredToken ==
    IF IsStr(request.API_BEARER_TOKEN) THEN Strip(request.API_BEARER_TOKEN.s) ELSE ""

\* the header is "Bearer " followed by the token, with white space allowed
\* before and after the token
BearerOf(header, token) ==
    /\ Len(header) >= 7 + Len(token)
    /\ SubSeq(header, 1, 7) = "Bearer "
    /\ \E i \in 8..(Len(header) - Len(token) + 1) :
          /\ SubSeq(header, i, i + Len(token) - 1) = token
          /\ \A k \in (8..(i - 1)) \cup ((i + Len(token))..Len(header)) :
                Char(header, k) \in Whitespace

\* a 401 is the end of the request: nothing was invoked and nothing follows
Refused ==
    /\ [](Unauthorized => (reply = [kind |-> "HTTPException", status_code |-> 401]
                           /\ ~Invoked /\ Calls = 0))
    /\ [][Unauthorized => Unauthorized']_vars

\* C27 as stated: with API_BEARER_TOKEN configured, the request goes on to the
\* extraction only if its Authorization header is "Bearer " followed by exactly
\* the configured token, and every other request gets 401 without the
\* extractor being invoked; with API_BEARER_TOKEN empty no header is required.
C27_AsStated ==
    Checked
        => (~Unauthorized <=>
               \/ ConfiguredToken = ""
               \/ request.authorization = JStr("Bearer " \o ConfiguredToken))

\* C27 amended: with API_BEARER_TOKEN configured, the request goes on to the
\* upload checks and the extraction only if its Authorization header starts
\* with "Bearer " and what follows equals the configured token once white
\* space around it is trimmed; every other request gets 401, before any
\* upload check and without the extractor being invoked. With API_BEARER_TOKEN
\* empty or blank no header is required.
C27_BearerCheck ==
    /\ [](Checked
            => (~Unauthorized <=>
                   \/ ConfiguredToken = ""
                   \/ /\ IsStr(request.authorization)
                      /\ BearerOf(request.authorization.s, ConfiguredToken)))
    /\ Refused

\* a PDF sent with a wrong token is refused with 401, not 415
C27_Witness ==
    /\ Unauthorized
    /\ request.content_type = "application/pdf"
    /\ request.authorization = JStr("Bearer other")
    /\ request.API_BEARER_TOKEN = JStr(" secret ")
    /\ reply.status_code = 401

\* the token is accepted with white space around it
C27_WitnessPadded ==
    /\ Checked /\ pc = "responded"
    /\ request.authorization = JStr("Bearer  secret ")
    /\ request.API_BEARER_TOKEN = JStr("secret")
    /\ reply.kind = "response"

\* ------------------------------------------------------------------------ C28
\* extract_with_repair returned a payload, and it holds no order
NoOrders == Invoked /\ ~KeyMissing /\ exc.type = "" /\ Len(result.orders) = 0

\* the ways extract_orders_from_image comes to _build_dummy_response: no
\* credential (line 116), an exception of the engine (line 179), no order (line 205)
UsedDummy == Invoked /\ (KeyMissing \/ exc.type # "" \/ NoOrders)

\* C28: every ImageExtractResponse extract_orders_from_image returns has status
\* "ok" and at least one order; a validated payload with zero orders is answered
\* with the one-row dummy response and the warning "Keine orders erkannt, dummy
\* response verwendet."; warnings is non-empty exactly when the response was
\* built by _build_dummy_response, and otherwise the orders are the engine's.
C28_NeverEmpty ==
    Answered
        => /\ reply.status = "ok" /\ reply.status_code = 200
           /\ Len(reply.orders) >= 1
           /\ NoOrders => /\ IsDummy(reply)
                          /\ reply.warnings = <<"Keine orders erkannt, dummy response verwendet.">>
           /\ UsedDummy <=> reply.warnings # <<>>
           /\ UsedDummy => IsDummy(reply) /\ Len(reply.warnings) = 1
           /\ ~UsedDummy => reply.orders = result.orders

\* the LLM answered with an empty orders list
C28_Witness ==
    /\ Answered /\ NoOrders
    /\ ReturnedFrom = RawObject(JList(<<>>))
    /\ CallerValue = JStr(" Anna ")
    /\ reply.orders[1].Eintragender = JStr("Anna")

\* the LLM answered with an empty object
C28_WitnessEmptyObject ==
    /\ Answered /\ NoOrders
    /\ ReturnedFrom = RawObject(JMissing)
    /\ Len(reply.orders) = 1

\* orders were extracted: no warning
C28_WitnessExtracted ==
    /\ Answered /\ ~UsedDummy
    /\ Len(reply.orders) = 2 /\ reply.warnings = <<>>

\* ------------------------------------------------------------------------ C29
\* the metadata carries no usable default: the key is absent, null, empty or
\* made of white space
NoUsableDefault ==
    \/ CallerValue \in {JMissing, JNull}
    \/ IsStr(CallerValue) /\ Strip(CallerValue.s) = ""

\* the Eintragender values the LLM wrote into the rows of the returned payload
WrittenBy ==
    LET rows == RowsOf(ReturnedFrom)
    IN  {JStr(Strip(rows[j].f.Eintragender.s)) :
            j \in {k \in 1..Len(rows) : IsRow(rows[k]) /\ IsStr(rows[k].f.Eintragender)}}

\* C29: when the metadata carries no usable default (default_eintragender
\* absent, JSON null, empty or white space only), no default is injected:
\* the Eintragender of the dummy order is null, and the Eintragender of every
\* extracted order is null or what the LLM wrote for an item.
C29_AsStated ==
    (Answered /\ NoUsableDefault)
        => /\ UsedDummy => reply.orders[1].Eintragender = JNull
           /\ ~UsedDummy
                => \A i \in 1..Len(reply.orders) :
                      reply.orders[i].Eintragender \in {JNull} \cup WrittenBy

\* the same for the metadata the code handles as the claim says: the key is
\* absent or holds a string
C29_StringOrAbsent ==
    (Answered /\ CallerValue # JNull) => C29_AsStated

\* metadata {"default_eintragender": null}: the dummy order is entered by "None"
C29_NoneInDummy ==
    /\ Answered /\ UsedDummy /\ CallerValue = JNull
    /\ reply.orders[1].Eintragender = JStr("None")
    /\ reply.rows[1].Eintragender = "None"

\* metadata {"default_eintragender": null}: an item the LLM gave without
\* Eintragender is entered by "None"
C29_NoneInItem ==
    /\ Answered /\ ~UsedDummy /\ CallerValue = JNull
    /\ RowsOf(ReturnedFrom) = <<RowMinimal>>
    /\ reply.orders[1].Eintragender = JStr("None")

\* white space only: nothing is injected
C29_WitnessBlank ==
    /\ Answered /\ ~UsedDummy /\ CallerValue = JStr("  ")
    /\ RowsOf(ReturnedFrom) = <<RowMinimal>>
    /\ reply.orders[1].Eintragender = JNull

\* ------------------------------------------------------------------------ C30
\* the system prompt a load returned before the save began
StoredBefore == Loaded(request.file.exists, request.file.text)

\* save_prompt_config was given a string system_prompt
SavesString == IsStr(request.config.system_prompt)

LoadReturned == op = "save_prompt_config" /\ threads.load.pc = "returned"

\* C30: a load_prompt_config that runs while save_prompt_config(new) runs
\* returns the system prompt stored before the save or the new one, never a
\* third value such as the built-in default; and a load that begins after
\* save_prompt_config(c) completed with a string system_prompt returns exactly
\* that system_prompt.
C30_AsStated ==
    (LoadReturned /\ SavesString)
        => /\ threads.load.prompt \in {StoredBefore, request.config.system_prompt.s}
           /\ (threads.load.began = "after" /\ threads.save.pc = "done")
                => threads.load.prompt = request.config.system_prompt.s

\* the second half alone: a load that begins after the save has completed
C30_LoadAfterSave ==
    (LoadReturned /\ threads.load.began = "after" /\ threads.save.pc = "done")
        => threads.load.prompt = threads.save.validated

\* what a load can return while a save runs: the prompt stored before, the
\* new one, or the built-in default
C30_LoadDuringSave ==
    LoadReturned
        => threads.load.prompt \in {StoredBefore, threads.save.validated,
                                     DEFAULT_SYSTEM_PROMPT}

\* the file held OldPrompt, NewPrompt is being saved, and the load returns
\* the built-in default
C30_DefaultDuringSave ==
    /\ LoadReturned /\ threads.load.began = "during"
    /\ StoredBefore = OldPrompt
    /\ threads.save.validated = NewPrompt
    /\ threads.load.prompt = DEFAULT_SYSTEM_PROMPT

\* a load after the save returns the prompt as it was given, quotes and line
\* break included
C30_WitnessAfter ==
    /\ LoadReturned /\ threads.load.began = "after" /\ threads.save.pc = "done"
    /\ StoredBefore = OldPrompt
    /\ threads.load.prompt = NewPrompt
    /\ disk.text = "{\n  \"system_prompt\": \"Nenne \\\"Kunde\\\" zuerst,\\ndann das Produkt.\"\n}"

====
